---- MODULE Spec2Model ----
(***************************************************************************)
(* A model of mcp-forge: the Forge registry and middleware runner          *)
(* (src/src/core/errors.ts), the rate-limit middleware                     *)
(* (src/src/middleware/rateLimit.ts) and the cache middleware              *)
(* (src/src/middleware/cache.ts).                                          *)
(*                                                                         *)
(* Each component has its own specification over the shared variables:     *)
(*   SpecReg    registration: tool / resource / resourceTemplate / prompt  *)
(*   SpecChain  one dispatch through executeWithMiddleware                 *)
(*   SpecRate   the rateLimit middleware, its buckets and its sweep        *)
(*   SpecCache  the cache middleware, its store, access order and sweep    *)
(***************************************************************************)
EXTENDS Integers, Sequences, FiniteSets, TLC

VARIABLES
    \* ---- Forge registry (class Forge fields)
    tools, resources, resourceTemplates, prompts,
    \* ---- middleware chain and one dispatch through it
    middlewares,   \* Forge.middlewares, in registration order
    pc,            \* "idle" | "down" | "up" | "done": position of the dispatch
    call,          \* the invocation being dispatched
    idx,           \* runner(index) currently executing, 1-based; 0 = the callback
    flow,          \* what the innermost settled call produced: value or exception
    log,           \* control-flow events of the dispatch, in order
    outcome,       \* how the callback's promise settled
    \* ---- the clock, Date.now()
    now,
    \* ---- one rateLimit(options) middleware instance
    rlOptions,     \* maxRequests, windowMs and the key policy
    buckets,       \* the buckets Map: key -> {count, resetTime}
    rlCalls,       \* calls of the middleware so far
    rlNext,        \* invocations of next() so far
    rlLast,        \* the latest call: its context, decision and result
    rlWindow,      \* per bucket key: the current window and the calls in it
    rlHandler,     \* per (type, name) or user: the same, kept by identity
    rlDispatches,  \* dispatches through the limiter, in flight and over
    rlAttempt,     \* the call made for the retry attempt in flight
    \* ---- one cache(options) middleware instance
    cOptions,      \* ttlMs, maxEntries, types and the key policy
    store,         \* the store Map: key -> {value, expiresAt}
    accessOrder,   \* keys, least recently used first
    pending,       \* calls waiting for next() to settle
    cCalls,        \* calls of the middleware so far
    cNext,         \* invocations of next() so far
    cLast,         \* the latest call begun: what it found and did
    cStored,       \* per key: the entry written by the latest call that stored
    cRecency,      \* the keys ever hit or written, least recently accessed first
    \* ---- createCache(options): the middleware above and clear()
    createCacheStore, \* the Map that createCache makes for clear()
    cCleared,      \* keys the cache held at the latest clear(), not called since
    cWrittenAt,    \* per key: the time of the latest store.set, where followed
    \* ---- one retry(options) middleware instance and one dispatch through it
    rOptions,      \* maxRetries, the backoff numbers and the shouldRetry policy
    rPc,           \* "idle", "awaiting" (next() in flight), "sleeping", "done"
    rAttempt,      \* the loop variable attempt
    rLastError,    \* lastError
    rLog,          \* what happened, in order: next, rejected, onRetry, sleep, woke
    rOutcome,      \* what the middleware settled with
    \* ---- one timeout(options) middleware instance and one dispatch through it
    tOptions,      \* ms, and whether message and onTimeout are given
    tCtx,          \* ctx.name of the dispatch
    settled,       \* the flag settled
    timer,         \* "none", "armed", "fired" or "cleared"
    tDue,          \* the time the timer is due
    tNext,         \* the promise of next(): not made, pending, or what it settled with
    tPromise,      \* the promise the middleware returned
    tSettles,      \* calls of resolve or reject so far
    tOnTimeout,    \* calls of onTimeout so far: <<ctx.name, ms>> each
    tLog,          \* "timer", "resolved", "rejected" in the order they happened
    \* ---- one metrics(options) instance: its middleware and reset()
    mOptions,      \* store, maxPerHandler
    stores,        \* the stores Map: "type:name" -> {metrics, aggregate}
    mPending,      \* calls waiting for next() to settle
    mCalls,        \* calls of the middleware so far
    mOnMetric,     \* every metric given to recordMetric (and onMetric), in order
    mResetAt,      \* how many of them had been recorded at the latest reset()
    mLast,         \* the latest call to settle: what next() and it settled with
    \* ---- one auth(options) middleware instance and one dispatch through it
    aOptions,      \* skipStdio, the extractToken given, and the messages
    aCtx,          \* ctx.headers and ctx.auth of the dispatch
    aPc,           \* "idle", "validating", "next" (next() in flight), "done"
    aToken,        \* what extractToken returned
    aLog,          \* calls made, in order: extractToken, validate, set, next
    aOutcome,      \* what the middleware settled with
    \* ---- one resource template as setupServer registers it, and one read
    uTemplate,     \* the templates setupServer registered with the server, each
                   \* with its uriTemplate, paramNames and regexPattern
    uRead          \* the latest read: the template read, the URI, whether it
                   \* matched, the params

regVars   == <<tools, resources, resourceTemplates, prompts>>
chainVars == <<middlewares, pc, call, idx, flow, log, outcome>>
rateVars  == <<rlOptions, buckets, rlCalls, rlNext, rlLast, rlWindow, rlHandler,
               rlDispatches, rlAttempt>>
cacheVars == <<cOptions, store, accessOrder, pending, cCalls, cNext, cLast, cStored,
               cRecency, createCacheStore, cCleared, cWrittenAt>>
retryVars == <<rOptions, rPc, rAttempt, rLastError, rLog, rOutcome>>
timeoutVars == <<tOptions, tCtx, settled, timer, tDue, tNext, tPromise, tSettles,
                 tOnTimeout, tLog>>
metricsVars == <<mOptions, stores, mPending, mCalls, mOnMetric, mResetAt, mLast>>
authVars == <<aOptions, aCtx, aPc, aToken, aLog, aOutcome>>
uriVars == <<uTemplate, uRead>>
vars      == <<regVars, chainVars, now, rateVars, cacheVars, retryVars, timeoutVars, uriVars, authVars, metricsVars>>

(***************************************************************************)
(* Bounds of the model.                                                    *)
(***************************************************************************)
MaxChain   == 3     \* middlewares registered with use()
MaxRecords == 3     \* handler records registered over all four kinds
MaxTime    == 3     \* the clock stops advancing here for the rate limiter
MaxRlCalls == 4     \* calls made of the rate-limit middleware
MaxDispatches == 3  \* dispatches begun that interleave at the limiter
MaxRaceTime == 1    \* the clock stops advancing here for those dispatches
MaxCacheCalls == 3  \* calls made of the cache middleware
MaxCacheTime  == 1  \* the clock stops advancing here for the cache
MaxSlowTime   == 2  \* the clock stops advancing here for the slow handler
MaxRetries    == 3  \* the largest maxRetries a retry middleware is built with
MaxTimeoutTime == 2 \* the clock stops advancing here for the timeout
MaxMetricCalls == 3 \* calls made of the metrics middleware
MaxMetricPending == 1 \* calls of the metrics middleware in flight at once
MaxSamples     == 7 \* calls made of the metrics middleware, one handler, in turn
MaxTemplates   == 2 \* resource templates registered before they are read

(***************************************************************************)
(* JavaScript values, as far as the callbacks look at them.                *)
(*   t        what kind of value it is                                     *)
(*   s        string / Error message / text of content[0] / JSON text      *)
(*   isError  the envelope's isError property: "true", "false", "absent"   *)
(*   text     typeof content[0].text of an envelope: "string", "undefined" *)
(* An "envelope" is an object that has a content property, an "object" is  *)
(* one that has none.                                                      *)
(***************************************************************************)
JsString(x)     == [t |-> "string",    s |-> x,  isError |-> "absent", text |-> "none"]
JsError(m)      == [t |-> "Error",     s |-> m,  isError |-> "absent", text |-> "none"]
JsObject(json)  == [t |-> "object",    s |-> json, isError |-> "absent", text |-> "none"]
JsNull          == [t |-> "null",      s |-> "", isError |-> "absent", text |-> "none"]
JsUndefined     == [t |-> "undefined", s |-> "", isError |-> "absent", text |-> "none"]
Envelope(x, e)  == [t |-> "envelope",  s |-> x,  isError |-> e, text |-> "string"]

\* { content: [{ type: "text", text }] } for a text that is a string or is
\* undefined.
TextContent(text) ==
    [t |-> "envelope", s |-> text.s, isError |-> "absent", text |-> text.t]

None == [t |-> "none", s |-> "", isError |-> "absent", text |-> "none"]

\* What a handler may resolve with, and what user code may throw.
HandlerResults == { JsString("ok"), JsObject("{\"n\":1}"), JsUndefined, JsNull,
                    Envelope("done", "absent"), Envelope("failed", "true") }
Thrown         == { JsError("boom"), JsString("oops"), JsNull }

Returns(v) == [tag |-> "value", v |-> v]
Throws(e)  == [tag |-> "throw", v |-> e]
NoFlow     == [tag |-> "none",  v |-> None]

HandlerOutcomes == {Returns(v) : v \in HandlerResults} \cup {Throws(e) : e \in Thrown}

\* String(error) for the values thrown here.
StringOf(e) ==
    CASE e.t = "string"    -> e.s
      [] e.t = "null"      -> "null"
      [] e.t = "undefined" -> "undefined"
      [] e.t = "Error"     -> "Error: " \o e.s
      [] OTHER             -> "[object Object]"

\* formatError: error instanceof Error ? error.message : String(error)
formatError(error) ==
    LET errorMessage == IF error.t = "Error" THEN error.s ELSE StringOf(error)
    IN  Envelope("Error: " \o errorMessage, "true")

\* The JSON text of an object, indented by two spaces.
Indent(json) ==
    CASE json = "{\"n\":1}"            -> "{\n  \"n\": 1\n}"
      [] json = "{\"userId\":\"123\"}" -> "{\n  \"userId\": \"123\"\n}"
      [] OTHER                        -> json

\* JSON.stringify(result, null, 2) for the values handled here: a string,
\* or undefined for undefined.  An Error has no enumerable property.
JsonStringify(v) ==
    CASE v.t = "string"    -> JsString("\"" \o v.s \o "\"")
      [] v.t = "null"      -> JsString("null")
      [] v.t = "Error"     -> JsString("{}")
      [] v.t = "object"    -> JsString(Indent(v.s))
      [] OTHER             -> JsUndefined

\* result && typeof result === "object" && "content" in result
HasContent(result) == result.t = "envelope"

\* A normalisation that wraps whatever it is given.
NormalizeWrapsAll(result) ==
    TextContent(IF result.t = "string" THEN result ELSE JsonStringify(result))

\* The tool callback's result normalisation.
NormalizeToolResult(result) ==
    IF HasContent(result)
    THEN result
    ELSE TextContent(IF result.t = "string" THEN result ELSE JsonStringify(result))

(***************************************************************************)
(* Registration.                                                           *)
(***************************************************************************)
Names == {"a", "b"}
Uris  == {"file:///a", "file:///b"}

NumRecords == Len(tools) + Len(resources) + Len(resourceTemplates) + Len(prompts)

\* Forge.tool: this.tools.push({name, schema, description, handler})
RegisterTool(name) == Append(tools, [name |-> name])

RegisterPrompt(name) == Append(prompts, [name |-> name])

Tool(name) ==
    /\ NumRecords < MaxRecords
    /\ tools' = RegisterTool(name)
    /\ UNCHANGED <<resources, resourceTemplates, prompts, chainVars, now, rateVars, cacheVars, retryVars, timeoutVars, uriVars, authVars, metricsVars>>

Resource(name, uri) ==
    /\ NumRecords < MaxRecords
    /\ resources' = Append(resources, [name |-> name, uri |-> uri])
    /\ UNCHANGED <<tools, resourceTemplates, prompts, chainVars, now, rateVars, cacheVars, retryVars, timeoutVars, uriVars, authVars, metricsVars>>

ResourceTemplate(name, uriTemplate) ==
    /\ NumRecords < MaxRecords
    /\ resourceTemplates' = Append(resourceTemplates,
                                   [name |-> name, uriTemplate |-> uriTemplate])
    /\ UNCHANGED <<tools, resources, prompts, chainVars, now, rateVars, cacheVars, retryVars, timeoutVars, uriVars, authVars, metricsVars>>

Prompt(name) ==
    /\ NumRecords < MaxRecords
    /\ prompts' = RegisterPrompt(name)
    /\ UNCHANGED <<tools, resources, resourceTemplates, chainVars, now, rateVars, cacheVars, retryVars, timeoutVars, uriVars, authVars, metricsVars>>

(***************************************************************************)
(* Middleware.  A registered middleware is user code; its behaviour is one *)
(* of                                                                      *)
(*   "await"  const r = await next(); return r                             *)
(*   "short"  return its own value without calling next()                  *)
(*   "throw"  throw its own error without calling next()                   *)
(*   "catch"  try { return await next() } catch { return its own value }   *)
(* id is the registration ordinal, so that events name the middleware.     *)
(***************************************************************************)
Behaviours == {"await", "short", "throw", "catch"}

MwValue(id) == JsString("mw" \o ToString(id))
MwError(id) == JsError("mw" \o ToString(id) \o " failed")

\* Forge.use: this.middlewares.push(middleware), at any time: before a
\* dispatch, or while one is running, whose runner reads this.middlewares
\* each time it is called.
Use(beh) ==
    /\ Len(middlewares) < MaxChain
    /\ middlewares' = Append(middlewares, [beh |-> beh, id |-> Len(middlewares) + 1])
    /\ UNCHANGED <<regVars, pc, call, idx, flow, log, outcome, now, rateVars, cacheVars, retryVars, timeoutVars, uriVars, authVars, metricsVars>>

(***************************************************************************)
(* Dispatch: the callbacks setupServer registers, and executeWithMiddleware*)
(***************************************************************************)
Kinds == {"tool", "resource", "prompt", "template"}

NoCall    == [kind |-> "none", name |-> "", argsOk |-> TRUE, matches |-> TRUE,
              h |-> NoFlow, chain |-> 0]
NoOutcome == [settle |-> "none", wrap |-> "none", value |-> None]

ValidationError == JsError("invalid arguments")
NoMatchError    == JsError("URI does not match template")

\* What the callback throws before it reaches executeWithMiddleware:
\* schema.parse(args) for tools, prompts and templates, the URI match for
\* templates; None when the chain is reached.
PreChainNoValidation(kind, argsOk, matches) == None

PreChain(kind, argsOk, matches) ==
    CASE kind = "tool"     -> IF argsOk THEN None ELSE ValidationError
      [] kind = "prompt"   -> IF argsOk THEN None ELSE ValidationError
      [] kind = "template" -> IF ~matches THEN NoMatchError
                              ELSE IF argsOk THEN None ELSE ValidationError
      [] OTHER             -> None

\* The callback is invoked: validation, then runner(0).  chain is the
\* number of middlewares registered by then.
Invoke(kind, name, argsOk, matches, h) ==
    /\ pc = "idle"
    /\ call' = [kind |-> kind, name |-> name, argsOk |-> argsOk,
                matches |-> matches, h |-> h, chain |-> Len(middlewares)]
    /\ log' = <<>>
    /\ outcome' = NoOutcome
    /\ LET pre == PreChain(kind, argsOk, matches)
       IN  IF pre # None
           THEN /\ flow' = Throws(pre)
                /\ pc' = "up"
                /\ idx' = 0
           ELSE /\ flow' = NoFlow
                /\ pc' = "down"
                /\ idx' = 1
    /\ UNCHANGED <<regVars, middlewares, now, rateVars, cacheVars, retryVars, timeoutVars, uriVars, authVars, metricsVars>>

\* runner(index) with index < middlewares.length: the middleware is entered.
NextIndex(index) == index + 1

MiddlewareAtReversed(index) == middlewares[Len(middlewares) + 1 - index]

MiddlewareAt(index) == middlewares[index]

\* The synchronous part of a middleware up to its next() call or its return:
\* whether it calls next(), and what it settles with when it does not.
EnterMiddleware(m) ==
    CASE m.beh = "short" -> [next |-> FALSE, flow |-> Returns(MwValue(m.id))]
      [] m.beh = "throw" -> [next |-> FALSE, flow |-> Throws(MwError(m.id))]
      [] OTHER           -> [next |-> TRUE,  flow |-> NoFlow]

\* The continuation () => runner(index + 1) is a thunk handed to the
\* middleware: downstream runs only when the middleware calls it.
RunsDownstreamEagerly(r) == TRUE

RunsDownstream(r) == r.next

Enter ==
    /\ pc = "down"
    /\ idx <= Len(middlewares)
    /\ LET m == MiddlewareAt(idx)
           r == EnterMiddleware(m)
       IN  /\ log' = Append(log, <<"enter", m.id>>)
           /\ IF RunsDownstream(r)
              THEN /\ idx' = NextIndex(idx)
                   /\ UNCHANGED <<pc, flow>>
              ELSE /\ flow' = r.flow
                   /\ pc' = "up"
                   /\ idx' = idx - 1
    /\ UNCHANGED <<regVars, middlewares, call, outcome, now, rateVars, cacheVars, retryVars, timeoutVars, uriVars, authVars, metricsVars>>

\* runner(index) with index === middlewares.length: return handler().
CallHandler ==
    /\ pc = "down"
    /\ idx > Len(middlewares)
    /\ log' = Append(log, <<"handler", 0>>)
    /\ flow' = call.h
    /\ pc' = "up"
    /\ idx' = Len(middlewares)
    /\ UNCHANGED <<regVars, middlewares, call, outcome, now, rateVars, cacheVars, retryVars, timeoutVars, uriVars, authVars, metricsVars>>

\* What a middleware that awaited next() settles with once next() settled.
ResumeMiddleware(m, f) ==
    IF m.beh = "catch" /\ f.tag = "throw"
    THEN Returns(MwValue(m.id))
    ELSE f

\* next() settled: control returns into the middleware that awaited it.
Exit ==
    /\ pc = "up"
    /\ idx >= 1
    /\ LET m == MiddlewareAt(idx)
       IN  /\ log' = Append(log, <<"exit", m.id>>)
           /\ flow' = ResumeMiddleware(m, flow)
    /\ idx' = idx - 1
    /\ UNCHANGED <<regVars, middlewares, pc, call, outcome, now, rateVars, cacheVars, retryVars, timeoutVars, uriVars, authVars, metricsVars>>

\* The callback's own try/catch around the chain.
ToolSettleRethrows(f) ==
    IF f.tag = "throw"
    THEN [settle |-> "rejected", wrap |-> "none", value |-> f.v]
    ELSE [settle |-> "resolved", wrap |-> "none", value |-> NormalizeToolResult(f.v)]

ToolSettle(f) ==
    IF f.tag = "throw"
    THEN [settle |-> "resolved", wrap |-> "none", value |-> formatError(f.v)]
    ELSE [settle |-> "resolved", wrap |-> "none", value |-> NormalizeToolResult(f.v)]

ResourceSettleFormats(f) ==
    IF f.tag = "throw"
    THEN [settle |-> "resolved", wrap |-> "none", value |-> formatError(f.v)]
    ELSE [settle |-> "resolved", wrap |-> "contents", value |-> f.v]

\* resource and resource-template callbacks: { contents: [{ uri, ...result }] }
ResourceSettle(f) ==
    IF f.tag = "throw"
    THEN [settle |-> "rejected", wrap |-> "none", value |-> f.v]
    ELSE [settle |-> "resolved", wrap |-> "contents", value |-> f.v]

PromptSettle(f) ==
    IF f.tag = "throw"
    THEN [settle |-> "rejected", wrap |-> "none", value |-> f.v]
    ELSE [settle |-> "resolved", wrap |-> "none", value |-> f.v]

Settle ==
    /\ pc = "up"
    /\ idx = 0
    /\ outcome' = CASE call.kind = "tool"   -> ToolSettle(flow)
                    [] call.kind = "prompt" -> PromptSettle(flow)
                    [] OTHER                -> ResourceSettle(flow)
    /\ pc' = "done"
    /\ UNCHANGED <<regVars, middlewares, call, idx, flow, log, now, rateVars, cacheVars, retryVars, timeoutVars, uriVars, authVars, metricsVars>>

\* The caller has its answer; the next invocation may start.
Finish ==
    /\ pc = "done"
    /\ pc' = "idle"
    /\ call' = NoCall
    /\ flow' = NoFlow
    /\ log' = <<>>
    /\ outcome' = NoOutcome
    /\ idx' = 0
    /\ UNCHANGED <<regVars, middlewares, now, rateVars, cacheVars, retryVars, timeoutVars, uriVars, authVars, metricsVars>>


(***************************************************************************)
(* The clock.  Date.now() is read at the start of a middleware call; time  *)
(* passes between calls.                                                   *)
(***************************************************************************)
Tick(limit) ==
    /\ now < limit
    /\ now' = now + 1

(***************************************************************************)
(* rateLimit(options)                                                      *)
(***************************************************************************)
\* The contexts the middleware is called with.  user is args.userId, "" when
\* the call carries none.
Contexts ==
    { [type |-> "tool",     name |-> "a",      user |-> "u1"],
      [type |-> "tool",     name |-> "a",      user |-> ""],
      [type |-> "resource", name |-> "a",      user |-> "u1"],
      [type |-> "resource", name |-> "tool:a", user |-> "u2"] }

NoContext == [type |-> "", name |-> "", user |-> ""]

\* The options the middleware is built with.  keys is "perHandler" (the
\* default), "global" (perHandler: false) or "keyGenerator".
RateOptions ==
    { [maxRequests |-> m, windowMs |-> w, keys |-> k] :
        m \in {0, 1, 2}, w \in {1, 2}, k \in {"perHandler", "global", "keyGenerator"} }

\* The key generator of the tests: (ctx) => ctx.args.userId ?? "anonymous"
KeyGenerator(ctx) == IF ctx.user = "" THEN "anonymous" ELSE ctx.user

\* Bucket key selection.
BucketKeyByNameOnly(options, ctx) ==
    CASE options.keys = "keyGenerator" -> KeyGenerator(ctx)
      [] options.keys = "perHandler"   -> ctx.name
      [] OTHER                         -> "global"

BucketKey(options, ctx) ==
    CASE options.keys = "keyGenerator" -> KeyGenerator(ctx)
      [] options.keys = "perHandler"   -> ctx.type \o ":" \o ctx.name
      [] OTHER                         -> "global"

NoBucket == [count |-> -1, resetTime |-> -1]

BucketOf(key) == IF key \in DOMAIN buckets THEN buckets[key] ELSE NoBucket

\* A limiter that counts the denied calls too.
RateLimitCallCountsDenied(options, ctx, t) ==
    LET key    == IF options.keys = "perHandler" THEN ctx.type \o ":" \o ctx.name
                  ELSE "global"
        prev   == IF key \in DOMAIN buckets THEN buckets[key] ELSE NoBucket
        bucket == IF prev = NoBucket \/ t >= prev.resetTime
                  THEN [count |-> 0, resetTime |-> t + options.windowMs]
                  ELSE prev
        denied == bucket.count >= options.maxRequests
    IN  [ ctx |-> ctx, key |-> key, at |-> t, prev |-> prev,
          allowed |-> ~denied,
          retryAfterMs |-> IF denied THEN bucket.resetTime - t ELSE 0,
          post |-> [bucket EXCEPT !.count = bucket.count + 1],
          result |-> IF denied THEN Envelope("Rate limit exceeded", "true")
                     ELSE JsString("next()") ]

\* A limiter whose increment is lost.
RateLimitCallLosesIncrement(options, ctx, t) ==
    LET key    == CASE options.keys = "keyGenerator" ->
                         (IF ctx.user = "" THEN "anonymous" ELSE ctx.user)
                    [] options.keys = "perHandler" -> ctx.type \o ":" \o ctx.name
                    [] OTHER -> "global"
        prev   == IF key \in DOMAIN buckets THEN buckets[key] ELSE NoBucket
        bucket == IF prev = NoBucket \/ t >= prev.resetTime
                  THEN [count |-> 0, resetTime |-> t + options.windowMs]
                  ELSE prev
        denied == bucket.count >= options.maxRequests
    IN  [ ctx |-> ctx, key |-> key, at |-> t, prev |-> prev,
          allowed |-> ~denied,
          retryAfterMs |-> IF denied THEN bucket.resetTime - t ELSE 0,
          post |-> bucket,
          result |-> IF denied THEN Envelope("Rate limit exceeded", "true")
                     ELSE JsString("next()") ]

\* Get or create the bucket: a missing bucket, or one whose window is over,
\* is replaced by {count: 0, resetTime: now + windowMs}.
WindowOverStrictlyAfter(bucket, t) == t > bucket.resetTime

WindowOver(bucket, t) == t >= bucket.resetTime

CurrentBucket(options, bucket, t) ==
    IF bucket = NoBucket \/ WindowOver(bucket, t)
    THEN [count |-> 0, resetTime |-> t + options.windowMs]
    ELSE bucket

\* Check rate limit: bucket.count >= maxRequests
LimitReachedOffByOne(options, bucket) == bucket.count > options.maxRequests

LimitReached(options, bucket) == bucket.count >= options.maxRequests

\* Math.ceil(ms / 1000)
CeilSeconds(ms) == -((-ms) \div 1000)

RateLimitedResult(ctx, retryAfterMs) ==
    Envelope("Rate limit exceeded for " \o ctx.name \o ". Please try again in "
             \o ToString(CeilSeconds(retryAfterMs)) \o " seconds.", "true")

\* The result of next(), which the middleware returns as it is.
NextResult == JsString("next()")

\* One call of the middleware: key, bucket, decision, and the result.
RateLimitCall(options, ctx, t) ==
    LET key    == BucketKey(options, ctx)
        prev   == BucketOf(key)
        bucket == CurrentBucket(options, prev, t)
        denied == LimitReached(options, bucket)
        retryAfterMs == bucket.resetTime - t
    IN  [ ctx |-> ctx, key |-> key, at |-> t, prev |-> prev,
          allowed |-> ~denied,
          retryAfterMs |-> IF denied THEN retryAfterMs ELSE 0,
          post |-> IF denied THEN bucket
                   ELSE [bucket EXCEPT !.count = bucket.count + 1],
          result |-> IF denied THEN RateLimitedResult(ctx, retryAfterMs)
                     ELSE NextResult ]

NoRateCall ==
    [ ctx |-> NoContext, key |-> "", at |-> 0, prev |-> NoBucket, allowed |-> FALSE,
      retryAfterMs |-> 0, post |-> NoBucket, result |-> None ]

\* buckets.set(key, bucket), then bucket.count++ on the same object.
PutBucket(key, bucket) ==
    [k \in DOMAIN buckets \cup {key} |-> IF k = key THEN bucket ELSE buckets[k]]

\* History of the windows, kept apart from the buckets Map: a window of a
\* key opens with the first call at or after the end of the previous one.
NoWindow == [resetTime |-> -1, calls |-> 0, admitted |-> 0]

WindowOf(w, k) == IF k \in DOMAIN w THEN w[k] ELSE NoWindow

RecordCall(w, k, t, windowMs, allowed) ==
    LET old  == WindowOf(w, k)
        cur  == IF old = NoWindow \/ t >= old.resetTime
                THEN [resetTime |-> t + windowMs, calls |-> 0, admitted |-> 0]
                ELSE old
        new  == [cur EXCEPT !.calls = cur.calls + 1,
                            !.admitted = cur.admitted + (IF allowed THEN 1 ELSE 0)]
    IN  [x \in DOMAIN w \cup {k} |-> IF x = k THEN new ELSE w[x]]

\* Which calls belong together under the configured policy, by identity
\* rather than by key string.
Identity(options, ctx) ==
    CASE options.keys = "keyGenerator" -> <<"user", KeyGenerator(ctx), "">>
      [] options.keys = "perHandler"   -> <<"handler", ctx.type, ctx.name>>
      [] OTHER                         -> <<"all", "", "">>

\* The middleware runs up to its return: { ... } or next().
RateLimitRuns(ctx) ==
    /\ LET r == RateLimitCall(rlOptions, ctx, now)
       IN  /\ buckets' = PutBucket(r.key, r.post)
           /\ rlNext' = IF r.allowed THEN rlNext + 1 ELSE rlNext
           /\ rlLast' = r
           /\ rlWindow' = RecordCall(rlWindow, r.key, now, rlOptions.windowMs, r.allowed)
           /\ rlHandler' = RecordCall(rlHandler, Identity(rlOptions, ctx), now,
                                      rlOptions.windowMs, r.allowed)
    /\ rlCalls' = rlCalls + 1
    /\ UNCHANGED <<now, rlOptions>>

RateLimit(ctx) ==
    /\ rlCalls < MaxRlCalls
    /\ RateLimitRuns(ctx)
    /\ UNCHANGED <<rlDispatches, rlAttempt, regVars, chainVars, cacheVars, retryVars, timeoutVars, uriVars, authVars, metricsVars>>

\* A cleanup that deletes a bucket one millisecond before its window is
\* over.
SweptBucketsEarly(t) == {k \in DOMAIN buckets : t + 1 >= buckets[k].resetTime}

\* The cleanup interval: delete every bucket whose window is over.
SweptBuckets(t) == {k \in DOMAIN buckets : t >= buckets[k].resetTime}

RateSweep ==
    /\ SweptBuckets(now) # {}
    /\ buckets' = [k \in DOMAIN buckets \ SweptBuckets(now) |-> buckets[k]]
    /\ UNCHANGED <<regVars, chainVars, now, retryVars, timeoutVars, uriVars, authVars, metricsVars, rlOptions, rlCalls, rlNext, rlLast,
                   rlWindow, rlHandler, rlDispatches, rlAttempt, cacheVars, retryVars, timeoutVars, uriVars, authVars, metricsVars>>

RateTick ==
    /\ Tick(MaxTime)
    /\ UNCHANGED <<regVars, chainVars, rateVars, cacheVars, retryVars, timeoutVars, uriVars, authVars, metricsVars>>

(***************************************************************************)
(* Dispatches in flight together.  A dispatch is begun and waits in a      *)
(* middleware registered before the limiter ("upstream"); the limiter then *)
(* runs from its first line to its return, there being no await in it, and *)
(* either denies ("denied") or calls next() ("handler"), which settles     *)
(* later ("settled").                                                      *)
(***************************************************************************)
RaceContexts ==
    { [type |-> "tool", name |-> "a", user |-> "u1"],
      [type |-> "tool", name |-> "a", user |-> ""] }

\* The options the limiter is built with for them.
RaceOptions ==
    { [maxRequests |-> m, windowMs |-> 1, keys |-> k] :
        m \in {0, 1, 2}, k \in {"perHandler", "keyGenerator"} }

Dispatch(ctx) == [ctx |-> ctx, pc |-> "upstream", key |-> "", window |-> -1]

RaceBegin(ctx) ==
    /\ Len(rlDispatches) < MaxDispatches
    /\ rlDispatches' = Append(rlDispatches, Dispatch(ctx))
    /\ UNCHANGED <<rlOptions, buckets, rlCalls, rlNext, rlLast, rlWindow, rlHandler, rlAttempt>>
    /\ UNCHANGED <<regVars, chainVars, now, cacheVars, retryVars, timeoutVars, uriVars, authVars, metricsVars>>

RaceEnter(i) ==
    /\ rlDispatches[i].pc = "upstream"
    /\ RateLimitRuns(rlDispatches[i].ctx)
    /\ LET r == RateLimitCall(rlOptions, rlDispatches[i].ctx, now)
       IN  rlDispatches' =
             [rlDispatches EXCEPT ![i] =
                [@ EXCEPT !.pc = IF r.allowed THEN "handler" ELSE "denied",
                          !.key = r.key,
                          !.window = r.post.resetTime]]
    /\ UNCHANGED <<rlAttempt, regVars, chainVars, cacheVars, retryVars, timeoutVars, uriVars, authVars, metricsVars>>

RaceSettle(i) ==
    /\ rlDispatches[i].pc = "handler"
    /\ rlDispatches' = [rlDispatches EXCEPT ![i].pc = "settled"]
    /\ UNCHANGED <<rlOptions, buckets, rlCalls, rlNext, rlLast, rlWindow, rlHandler, rlAttempt>>
    /\ UNCHANGED <<regVars, chainVars, now, cacheVars, retryVars, timeoutVars, uriVars, authVars, metricsVars>>

(***************************************************************************)
(* cache(options)                                                          *)
(***************************************************************************)
\* The contexts the middleware is called with.  args is the value n of
\* ctx.args = {a: n}; id is what the custom key generator returns for the
\* call: a string (possibly empty), or "null" for null.
CacheContexts ==
    { [type |-> "tool",     name |-> "a", args |-> "1", id |-> "x"],
      [type |-> "tool",     name |-> "a", args |-> "2", id |-> ""],
      [type |-> "resource", name |-> "a", args |-> "1", id |-> "null"] }

NoCacheContext == [type |-> "", name |-> "", args |-> "", id |-> ""]

\* The options the middleware is built with.  keys is "default" or
\* "keyGenerator".
CacheOptionSets ==
    { [ttlMs |-> 2, maxEntries |-> 1, types |-> {"tool"}, keys |-> "default"],
      [ttlMs |-> 1, maxEntries |-> 2, types |-> {"tool"}, keys |-> "default"],
      [ttlMs |-> 2, maxEntries |-> 2, types |-> {"tool"}, keys |-> "keyGenerator"],
      [ttlMs |-> 1, maxEntries |-> 1, types |-> {"tool", "resource"},
       keys |-> "keyGenerator"] }

\* The options createCache is called with.
CreateCacheOptionSets ==
    { [ttlMs |-> 1, maxEntries |-> 2, types |-> {"tool"}, keys |-> "default"] }

\* The calls made through the middleware that createCache returns.
CreateCacheContexts == {ctx \in CacheContexts : ctx.type = "tool"}

\* What next() may settle with.
NextOutcomes == { Returns(JsString("r1")), Returns(Envelope("failed", "true")),
                  Throws(JsError("boom")) }

\* JSON.stringify(ctx.args)
JsonArgs(args) == "{\"a\":" \o args \o "}"

\* generateKey: <<>> stands for null, <<k>> for the string k.
generateKey(options, ctx) ==
    IF options.keys = "keyGenerator"
    THEN IF ctx.id = "null" THEN <<>> ELSE <<ctx.id>>
    ELSE <<ctx.type \o ":" \o ctx.name \o ":" \o JsonArgs(ctx.args)>>

NoEntry == [value |-> None, expiresAt |-> -1]

EntryOf(st, key) == IF key \in DOMAIN st THEN st[key] ELSE NoEntry

Without(st, key) == [k \in DOMAIN st \ {key} |-> st[k]]

\* A set that keeps the entry a key already has.
WithKeepsFirst(st, key, entry) ==
    [k \in DOMAIN st \cup {key} |-> IF k \in DOMAIN st THEN st[k] ELSE entry]

With(st, key, entry) ==
    [k \in DOMAIN st \cup {key} |-> IF k = key THEN entry ELSE st[k]]

\* accessOrder.indexOf(key), 0 when absent
IndexOf(order, key) ==
    IF \E i \in 1..Len(order) : order[i] = key
    THEN CHOOSE i \in 1..Len(order) :
            /\ order[i] = key
            /\ \A j \in 1..(i - 1) : order[j] # key
    ELSE 0

\* accessOrder.splice(idx, 1)
Splice(order, i) == SubSeq(order, 1, i - 1) \o SubSeq(order, i + 1, Len(order))

RemoveKey(order, key) ==
    IF IndexOf(order, key) # 0 THEN Splice(order, IndexOf(order, key)) ELSE order

updateAccessOrder(order, key) == Append(RemoveKey(order, key), key)

\* evictIfNeeded: while the store is full and the order is not empty, shift
\* the oldest key off the order and, if (oldest), delete it from the store.
RECURSIVE evictIfNeeded(_, _, _)
evictIfNeeded(st, order, maxEntries) ==
    IF Cardinality(DOMAIN st) >= maxEntries /\ Len(order) > 0
    THEN LET oldest == Head(order)
         IN  evictIfNeeded(IF oldest # "" THEN Without(st, oldest) ELSE st,
                           Tail(order), maxEntries)
    ELSE [store |-> st, order |-> order]

\* cached && now < cached.expiresAt
IsFreshReversed(entry, t) == entry # NoEntry /\ t >= entry.expiresAt

IsFreshInclusive(entry, t) == entry # NoEntry /\ t <= entry.expiresAt

IsFresh(entry, t) == entry # NoEntry /\ t < entry.expiresAt

NoCacheCall ==
    [ id |-> 0, ctx |-> NoCacheContext, key |-> <<>>, at |-> 0, entry |-> NoEntry,
      stored |-> NoEntry, mode |-> "none", result |-> None ]

CacheLookupIgnoresTypes(options, ctx, t) ==
    LET key == generateKey(options, ctx)
        entry == IF key = <<>> THEN NoEntry ELSE EntryOf(store, key[1])
        mode == IF key = <<>> THEN "bypass"
                ELSE IF IsFresh(entry, t) THEN "hit"
                ELSE "miss"
    IN  [ id |-> cCalls + 1, ctx |-> ctx, key |-> key, at |-> t, entry |-> entry,
          stored |-> IF key = <<>> THEN NoEntry ELSE EntryOf(cStored, key[1]),
          mode |-> mode,
          result |-> IF mode = "hit" THEN entry.value ELSE None ]

\* The middleware up to its first await: bypass, hit or miss.  The key is
\* generated only for a configured type, the store read only for a key.
CacheLookup(options, ctx, t) ==
    LET key == IF ctx.type \in options.types THEN generateKey(options, ctx) ELSE <<>>
        entry == IF key = <<>> THEN NoEntry ELSE EntryOf(store, key[1])
        mode == IF key = <<>> THEN "bypass"
                ELSE IF IsFresh(entry, t) THEN "hit"
                ELSE "miss"
    IN  [ id |-> cCalls + 1, ctx |-> ctx, key |-> key, at |-> t, entry |-> entry,
          stored |-> IF key = <<>> THEN NoEntry ELSE EntryOf(cStored, key[1]),
          mode |-> mode,
          result |-> IF mode = "hit" THEN entry.value ELSE None ]

CacheLooksUp(ctx) ==
    /\ cCalls < MaxCacheCalls
    /\ LET r == CacheLookup(cOptions, ctx, now)
       IN  /\ cLast' = r
           /\ IF r.mode = "hit"
              THEN /\ accessOrder' = updateAccessOrder(accessOrder, r.key[1])
                   /\ cRecency' = updateAccessOrder(cRecency, r.key[1])
                   /\ UNCHANGED <<pending, cNext>>
              ELSE /\ pending' = pending \cup
                         {[id |-> r.id, ctx |-> r.ctx, key |-> r.key, at |-> r.at,
                           mode |-> r.mode]}
                   /\ cNext' = cNext + 1
                   /\ UNCHANGED <<accessOrder, cRecency>>
    /\ cCalls' = cCalls + 1
    /\ cCleared' = {k \in cCleared : <<k>> # cLast'.key}
    /\ UNCHANGED <<now, cOptions, store, cStored, createCacheStore, cWrittenAt>>

CacheBegin(ctx) ==
    /\ CacheLooksUp(ctx)
    /\ UNCHANGED <<regVars, chainVars, rateVars, retryVars, timeoutVars, uriVars, authVars, metricsVars>>

\* What the middleware settles with once next() has settled with out: the
\* result it returns, or the rejection it lets through.
CacheReturn(p, out) == out

\* next() settled for a waiting call: a miss that resolved stores the
\* result; a rejection, or a bypassing call, leaves the cache alone.
\* expiresAt of the entry that the call p writes at time t: now + ttlMs,
\* now being what the call read before its lookup.
ExpiresAtFromWrite(options, p, t) == t + options.ttlMs

ExpiresAt(options, p, t) == p.at + options.ttlMs

CacheStores(p, out) ==
    /\ p \in pending
    /\ pending' = pending \ {p}
    /\ IF p.mode = "miss" /\ out.tag = "value"
       THEN LET e == evictIfNeeded(store, accessOrder, cOptions.maxEntries)
                entry == [value |-> out.v, expiresAt |-> ExpiresAt(cOptions, p, now)]
            IN  /\ store' = With(e.store, p.key[1], entry)
                /\ accessOrder' = updateAccessOrder(e.order, p.key[1])
                /\ cStored' = With(cStored, p.key[1], entry)
                /\ cRecency' = updateAccessOrder(cRecency, p.key[1])
       ELSE UNCHANGED <<store, accessOrder, cStored, cRecency>>
    /\ UNCHANGED <<now, cOptions, cCalls, cNext, cLast, createCacheStore, cCleared>>

CacheFinish(p, out) ==
    /\ CacheStores(p, out)
    /\ UNCHANGED <<regVars, chainVars, rateVars, retryVars, timeoutVars, uriVars, authVars, metricsVars, cWrittenAt>>

\* The cleanup interval: delete every expired entry from store and order.
ExpiredKeys(t) == {k \in DOMAIN store : t >= store[k].expiresAt}

RECURSIVE RemoveKeys(_, _)
RemoveKeys(order, keys) ==
    IF order = <<>> THEN <<>>
    ELSE IF Head(order) \in keys
         THEN RemoveKeys(Tail(order), keys \ {Head(order)})
         ELSE <<Head(order)>> \o RemoveKeys(Tail(order), keys)

CacheSweep ==
    /\ ExpiredKeys(now) # {}
    /\ store' = [k \in DOMAIN store \ ExpiredKeys(now) |-> store[k]]
    /\ accessOrder' = RemoveKeys(accessOrder, ExpiredKeys(now))
    /\ UNCHANGED <<regVars, chainVars, now, rateVars, retryVars, timeoutVars, uriVars, authVars, metricsVars, cOptions, pending, cCalls,
                   cNext, cLast, cStored, cRecency, createCacheStore, cCleared,
                   cWrittenAt>>

\* createCache: `middleware` is cache(options) with its own store, and
\* clear() is store.clear() on the Map that createCache itself makes.
CacheClear ==
    /\ cCleared' = DOMAIN store
    /\ createCacheStore' = <<>>
    /\ UNCHANGED <<regVars, chainVars, now, rateVars, retryVars, timeoutVars, uriVars, authVars, metricsVars, cOptions, store, accessOrder,
                   pending, cCalls, cNext, cLast, cStored, cRecency, cWrittenAt>>

CacheTick ==
    /\ Tick(MaxCacheTime)
    /\ UNCHANGED <<regVars, chainVars, rateVars, cacheVars, retryVars, timeoutVars, uriVars, authVars, metricsVars>>

(***************************************************************************)
(* The cache before a handler that takes its time: the time of every       *)
(* store.set is followed.                                                  *)
(***************************************************************************)
SlowContexts == {ctx \in CacheContexts : ctx.type = "tool" /\ ctx.args = "1"}

SlowOptions ==
    { [ttlMs |-> t, maxEntries |-> 2, types |-> {"tool"}, keys |-> "default"] :
        t \in {1, 2} }

SlowFinish(p, out) ==
    /\ CacheStores(p, out)
    /\ cWrittenAt' = IF p.mode = "miss" /\ out.tag = "value"
                     THEN With(cWrittenAt, p.key[1], now)
                     ELSE cWrittenAt
    /\ UNCHANGED <<regVars, chainVars, rateVars, retryVars, timeoutVars, uriVars, authVars, metricsVars>>

SlowTick ==
    /\ Tick(MaxSlowTime)
    /\ UNCHANGED <<regVars, chainVars, rateVars, cacheVars, retryVars, timeoutVars, uriVars, authVars, metricsVars>>

(***************************************************************************)
(* retry(options).  Numbers are rationals [n, d] with d > 0, so that a     *)
(* fractional multiplier, jitter or random draw is computed exactly.       *)
(***************************************************************************)
Rat(n, d) == [n |-> n, d |-> d]

RatLeq(a, b) == a.n * b.d <= b.n * a.d

RatMul(a, b) == Rat(a.n * b.n, a.d * b.d)

RatAdd(a, b) == Rat(a.n * b.d + b.n * a.d, a.d * b.d)

\* Math.min, Math.max
MathMin(a, b) == IF RatLeq(a, b) THEN a ELSE b

MathMax(a, b) == IF RatLeq(a, b) THEN b ELSE a

\* Math.pow(a, k) for an integer k >= 0
RECURSIVE MathPow(_, _)
MathPow(a, k) == IF k = 0 THEN Rat(1, 1) ELSE RatMul(a, MathPow(a, k - 1))

\* Math.round: the nearest integer, a half rounding up
MathRound(a) == (2 * a.n + a.d) \div (2 * a.d)

\* Math.random() * 2 - 1 lies in [-1, 1)
RandomDraws == {Rat(-1, 1), Rat(-1, 2), Rat(0, 1), Rat(1, 2)}

ShouldRetryPolicies == {"always", "never", "unlessNoRetry"}

\* The options the middleware is built with.
RetryOptionSets ==
    [ maxRetries        : 0..MaxRetries,
      initialDelayMs    : {Rat(1, 1), Rat(1000, 1)},
      maxDelayMs        : {Rat(2, 1), Rat(3000, 1)},
      backoffMultiplier : {Rat(1, 2), Rat(3, 2), Rat(2, 1)},
      jitter            : {Rat(0, 1), Rat(1, 2)},
      shouldRetry       : ShouldRetryPolicies ]

NoRetryOptions ==
    [ maxRetries |-> 0, initialDelayMs |-> Rat(0, 1), maxDelayMs |-> Rat(0, 1),
      backoffMultiplier |-> Rat(1, 1), jitter |-> Rat(0, 1), shouldRetry |-> "none" ]

\* What next() may settle with under retry.
RetryErrors == {JsError("fail"), JsError("no-retry")}

RetryOutcomes == {Returns(JsString("success"))} \cup {Throws(e) : e \in RetryErrors}

\* The delay before the jitter is added.
Backoff(options, attempt) ==
    MathMin(RatMul(options.initialDelayMs,
                   MathPow(options.backoffMultiplier, attempt - 1)),
            options.maxDelayMs)

calculateDelayNoRound(options, attempt, rnd) ==
    LET delay == Backoff(options, attempt)
        jitterAmount == RatMul(RatMul(delay, options.jitter), rnd)
        jittered == MathMax(Rat(0, 1), RatAdd(delay, jitterAmount))
    IN  jittered.n \div jittered.d

\* calculateDelay(attempt), rnd being the value of Math.random() * 2 - 1.
calculateDelay(options, attempt, rnd) ==
    LET delay == Backoff(options, attempt)
        jitterAmount == RatMul(RatMul(delay, options.jitter), rnd)
    IN  MathRound(MathMax(Rat(0, 1), RatAdd(delay, jitterAmount)))

shouldRetryIgnored(options, error) == TRUE

\* The predicate given as shouldRetry: the default () => true, one that
\* never retries, and one that retries all but the "no-retry" error.
shouldRetry(options, error) ==
    CASE options.shouldRetry = "always" -> TRUE
      [] options.shouldRetry = "never" -> FALSE
      [] OTHER -> error.s # "no-retry"

ExhaustedOneLate(options, attempt) == attempt > options.maxRetries + 1

\* attempt > maxRetries
Exhausted(options, attempt) == attempt > options.maxRetries

\* One entry of the log.  onRetry is recorded as called on every retry.
RetryEvent(ev, attempt, delayMs, error) ==
    [ev |-> ev, attempt |-> attempt, delayMs |-> delayMs, error |-> error]

\* The loop head: attempt <= maxRetries + 1 calls next(), otherwise the
\* loop is left and lastError thrown.
RetryLoop(attempt, lastError) ==
    IF attempt <= rOptions.maxRetries + 1
    THEN /\ rPc' = "awaiting"
         /\ rLog' = Append(rLog, RetryEvent("next", attempt, 0, None))
         /\ UNCHANGED rOutcome
    ELSE /\ rPc' = "done"
         /\ rOutcome' = Throws(lastError)
         /\ UNCHANGED rLog

\* The middleware is called: attempt = 1.
RetryBegins ==
    /\ rPc = "idle"
    /\ rOptions # NoRetryOptions
    /\ rAttempt' = 1
    /\ RetryLoop(1, JsUndefined)
    /\ UNCHANGED <<rOptions, rLastError>>

RetryCall ==
    /\ RetryBegins
    /\ UNCHANGED <<regVars, chainVars, now, rateVars, cacheVars, timeoutVars, uriVars, authVars, metricsVars>>

RetryCatchesSleepsFirst(out, rnd) ==
    /\ rPc = "awaiting"
    /\ IF out.tag = "value"
       THEN /\ rPc' = "done"
            /\ rOutcome' = out
            /\ UNCHANGED <<rLog, rLastError>>
       ELSE /\ rLastError' = out.v
            /\ IF Exhausted(rOptions, rAttempt) \/ ~shouldRetry(rOptions, out.v)
               THEN /\ rPc' = "done"
                    /\ rOutcome' = out
                    /\ rLog' = Append(rLog, RetryEvent("rejected", rAttempt, 0, out.v))
               ELSE LET delayMs == calculateDelay(rOptions, rAttempt, rnd)
                    IN  /\ rPc' = "sleeping"
                        /\ rLog' = rLog \o
                              << RetryEvent("rejected", rAttempt, 0, out.v),
                                 RetryEvent("sleep", rAttempt, delayMs, None),
                                 RetryEvent("onRetry", rAttempt, delayMs, out.v) >>
                        /\ UNCHANGED rOutcome
    /\ UNCHANGED <<rOptions, rAttempt>>

\* next() settles: a value is returned; an error is rethrown when no
\* retries are left or shouldRetry says no, otherwise the delay is
\* calculated, onRetry called and the sleep begun.
RetryCatches(out, rnd) ==
    /\ rPc = "awaiting"
    /\ IF out.tag = "value"
       THEN /\ rPc' = "done"
            /\ rOutcome' = out
            /\ UNCHANGED <<rLog, rLastError>>
       ELSE /\ rLastError' = out.v
            /\ IF Exhausted(rOptions, rAttempt) \/ ~shouldRetry(rOptions, out.v)
               THEN /\ rPc' = "done"
                    /\ rOutcome' = out
                    /\ rLog' = Append(rLog, RetryEvent("rejected", rAttempt, 0, out.v))
               ELSE LET delayMs == calculateDelay(rOptions, rAttempt, rnd)
                    IN  /\ rPc' = "sleeping"
                        /\ rLog' = rLog \o
                              << RetryEvent("rejected", rAttempt, 0, out.v),
                                 RetryEvent("onRetry", rAttempt, delayMs, out.v),
                                 RetryEvent("sleep", rAttempt, delayMs, None) >>
                        /\ UNCHANGED rOutcome
    /\ UNCHANGED <<rOptions, rAttempt>>

RetrySettle(out, rnd) ==
    /\ RetryCatches(out, rnd)
    /\ UNCHANGED <<regVars, chainVars, now, rateVars, cacheVars, timeoutVars, uriVars, authVars, metricsVars>>

RetryWakeSameAttempt ==
    /\ rPc = "sleeping"
    /\ rAttempt' = rAttempt
    /\ RetryLoop(rAttempt, rLastError)
    /\ UNCHANGED <<regVars, chainVars, now, rateVars, cacheVars, timeoutVars, uriVars, authVars, metricsVars,
                   rOptions, rLastError>>

\* The sleep is over: attempt++ and the loop head again.
RetryResumes ==
    /\ rPc = "sleeping"
    /\ rAttempt' = rAttempt + 1
    /\ RetryLoop(rAttempt + 1, rLastError)
    /\ UNCHANGED <<rOptions, rLastError>>

RetryWake ==
    /\ RetryResumes
    /\ UNCHANGED <<regVars, chainVars, now, rateVars, cacheVars, timeoutVars, uriVars, authVars, metricsVars>>

(***************************************************************************)
(* use(retry(...)); use(rateLimit(...)): retry's next() is the limiter,    *)
(* the limiter's next() is the handler.                                    *)
(***************************************************************************)
\* The dispatch that is followed through the retry loop.
RetriedContext == [type |-> "tool", name |-> "a", user |-> "u1"]

\* Another dispatch of the same handler, whose handler does not throw.
OtherContext == [type |-> "tool", name |-> "a", user |-> ""]

\* The options the two are built with.
RetriedRateOptions ==
    { [maxRequests |-> m, windowMs |-> w, keys |-> "perHandler"] :
        m \in {0, 1, 2}, w \in {1, 2} }

RetriedRetryOptions ==
    { [ maxRetries |-> n, initialDelayMs |-> Rat(1, 1), maxDelayMs |-> Rat(2, 1),
        backoffMultiplier |-> Rat(2, 1), jitter |-> Rat(0, 1), shouldRetry |-> p ] :
        n \in 0..MaxRetries, p \in {"always", "unlessNoRetry"} }

\* The limiter runs for the attempt, and what it did is kept for when
\* the attempt settles.
AttemptLimited ==
    /\ RateLimitRuns(RetriedContext)
    /\ rlAttempt' = RateLimitCall(rlOptions, RetriedContext, now)

\* What next() of the retry middleware settles with: the envelope the
\* limiter returned for this attempt, or whatever the handler it called
\* for this attempt settles with.
RetriedOutcomes ==
    IF rlAttempt.allowed THEN RetryOutcomes ELSE {Returns(rlAttempt.result)}

\* An attempt begins: next() runs the limiter up to its return.
RetriedAttempt ==
    /\ RetryBegins \/ RetryResumes
    /\ IF rPc' = "awaiting"
       THEN AttemptLimited /\ UNCHANGED rlDispatches
       ELSE UNCHANGED <<now, rateVars>>
    /\ UNCHANGED <<regVars, chainVars, cacheVars, timeoutVars, uriVars, authVars, metricsVars>>

\* The attempt settles.  The limiter has returned next() or its envelope
\* and runs no code after that.
RetriedSettle(out, rnd) ==
    /\ out \in RetriedOutcomes
    /\ RetrySettle(out, rnd)

(***************************************************************************)
(* timeout(options).                                                       *)
(***************************************************************************)
TimeoutOptionSets ==
    [ ms : {1, 2}, message : {"default", "custom"}, onTimeout : BOOLEAN ]

NoTimeoutOptions == [ms |-> 0, message |-> "none", onTimeout |-> FALSE]

\* What next() may settle with under timeout.
TimeoutOutcomes ==
    { Returns(JsString("slow")), Returns(JsObject("{\"result\":\"success\"}")),
      Throws(JsError("boom")) }

\* The promise of next() before it is made and while it is pending.
NotCalled == [state |-> "none", out |-> NoFlow]
Pending   == [state |-> "pending", out |-> NoFlow]

\* message(ctx, ms) when given, else the default text.
errorMessage(options, name) ==
    IF options.message = "custom"
    THEN "Custom timeout: " \o name \o " after " \o ToString(options.ms) \o "ms"
    ELSE "Handler '" \o name \o "' timed out after " \o ToString(options.ms) \o "ms"

TimeoutRejects(options, name) ==
    Throws(JsError(errorMessage(options, name)))

\* What the timer callback settles the promise with.
TimeoutResult(options, name) ==
    Returns(Envelope("Error: " \o errorMessage(options, name), "true"))

\* resolve / reject of a promise: only the first call has an effect.
SettlePromise(promise, out) == IF promise = NoFlow THEN out ELSE promise

NotSettledIgnored(flag) == TRUE

\* if (!settled)
NotSettled(flag) == ~flag

\* The call is over for the one that awaited it: its promise, flag and
\* timer are not looked at again.
TimeoutDropped ==
    /\ tCtx' = ""
    /\ settled' = FALSE
    /\ timer' = "none"
    /\ tDue' = 0
    /\ tNext' = NotCalled
    /\ tPromise' = NoFlow
    /\ tSettles' = 0
    /\ tOnTimeout' = <<>>
    /\ tLog' = <<>>
    /\ UNCHANGED tOptions

\* The middleware is called: the timer is set and next() invoked.
TimeoutBegins(name) ==
    /\ timer = "none"
    /\ tOptions # NoTimeoutOptions
    /\ tCtx' = name
    /\ settled' = FALSE
    /\ timer' = "armed"
    /\ tDue' = now + tOptions.ms
    /\ tNext' = Pending
    /\ UNCHANGED <<tOptions, tPromise, tSettles, tOnTimeout, tLog>>

TimeoutCall(name) ==
    /\ TimeoutBegins(name)
    /\ UNCHANGED <<regVars, chainVars, now, rateVars, cacheVars, retryVars, metricsVars, authVars, uriVars>>

\* The timer callback runs, not before the timer is due.
TimerRuns ==
    /\ timer = "armed"
    /\ now >= tDue
    /\ timer' = "fired"
    /\ tLog' = Append(tLog, "timer")
    /\ IF NotSettled(settled)
       THEN /\ settled' = TRUE
            /\ tOnTimeout' = IF tOptions.onTimeout
                              THEN Append(tOnTimeout, <<tCtx, tOptions.ms>>)
                              ELSE tOnTimeout
            /\ tPromise' = SettlePromise(tPromise, TimeoutResult(tOptions, tCtx))
            /\ tSettles' = tSettles + 1
       ELSE UNCHANGED <<settled, tOnTimeout, tPromise, tSettles>>
    /\ UNCHANGED <<now, tOptions, tCtx, tDue, tNext>>

TimerFires ==
    /\ TimerRuns
    /\ UNCHANGED <<regVars, chainVars, rateVars, cacheVars, retryVars, metricsVars, authVars, uriVars>>

\* next() settles: .then(result) resolves, .catch(error) rejects, each
\* only if not settled, and clears the timer.
NextSettled(out) ==
    /\ tNext = Pending
    /\ tNext' = [state |-> IF out.tag = "value" THEN "resolved" ELSE "rejected",
                 out |-> out]
    /\ tLog' = Append(tLog, tNext'.state)
    /\ IF NotSettled(settled)
       THEN /\ settled' = TRUE
            /\ timer' = IF timer = "armed" THEN "cleared" ELSE timer
            /\ tPromise' = SettlePromise(tPromise, out)
            /\ tSettles' = tSettles + 1
       ELSE UNCHANGED <<settled, timer, tPromise, tSettles>>
    /\ UNCHANGED <<tOptions, tCtx, tDue, tOnTimeout>>

NextSettles(out) ==
    /\ NextSettled(out)
    /\ UNCHANGED <<regVars, chainVars, now, rateVars, cacheVars, retryVars, metricsVars, authVars, uriVars>>

TimeoutTick ==
    /\ Tick(MaxTimeoutTime)
    /\ UNCHANGED <<regVars, chainVars, rateVars, cacheVars, retryVars, timeoutVars, uriVars, authVars, metricsVars>>

(***************************************************************************)
(* use(cache(...)); use(timeout(...)): the cache's next() is the timeout,  *)
(* whose next() is the handler.  One call at a time goes through the       *)
(* timeout; when the cache has its answer the timeout's promise, flag and  *)
(* timer of that call are dropped.                                         *)
(***************************************************************************)
GuardedContexts == {ctx \in CacheContexts : ctx.type = "tool"}

GuardedCacheOptions ==
    { [ttlMs |-> 2, maxEntries |-> n, types |-> {"tool"}, keys |-> "default"] :
        n \in {1, 2} }

GuardedTimeoutOptions == {[ms |-> 1, message |-> "default", onTimeout |-> FALSE]}

\* The timer callback ran before next() settled.
TimedOut == Len(tLog) > 0 /\ tLog[1] = "timer"

GuardedBegin(ctx) ==
    /\ CacheLooksUp(ctx)
    /\ IF cLast'.mode = "hit"
       THEN UNCHANGED timeoutVars
       ELSE TimeoutBegins(ctx.name)
    /\ UNCHANGED <<regVars, chainVars, rateVars, retryVars, uriVars, authVars, metricsVars>>

\* A cache that keeps no error envelope.
GuardedReturnSkipsErrors(p) ==
    /\ tPromise # NoFlow
    /\ CacheStores(p, IF tPromise.tag = "value" /\ tPromise.v.isError = "true"
                      THEN Throws(tPromise.v)
                      ELSE tPromise)
    /\ TimeoutDropped
    /\ UNCHANGED <<regVars, chainVars, rateVars, retryVars, uriVars, authVars, metricsVars, cWrittenAt>>

\* The timeout's promise is settled: the cache stores what it resolved
\* with.
GuardedReturn(p) ==
    /\ tPromise # NoFlow
    /\ CacheStores(p, tPromise)
    /\ TimeoutDropped
    /\ UNCHANGED <<regVars, chainVars, rateVars, retryVars, uriVars, authVars, metricsVars, cWrittenAt>>

(***************************************************************************)
(* use(retry(...)) and then use(rateLimit(...)) or use(timeout(...)):      *)
(* retry's next() is the limiter or the timeout, whose next() is the       *)
(* handler.                                                                *)
(***************************************************************************)
ShieldedRateOptions ==
    { [maxRequests |-> m, windowMs |-> 2, keys |-> "perHandler"] : m \in {0, 1} }

ShieldedOutcomesDenialThrows ==
    IF rlOptions = [maxRequests |-> 0, windowMs |-> 0, keys |-> "none"]
    THEN {tPromise} \ {NoFlow}
    ELSE IF rlAttempt.allowed THEN RetryOutcomes ELSE {Throws(rlAttempt.result)}

\* What next() of the retry middleware settles with: what the promise of
\* the timeout is settled with, or what the limiter returns.
ShieldedOutcomes ==
    IF rlOptions = [maxRequests |-> 0, windowMs |-> 0, keys |-> "none"]
    THEN {tPromise} \ {NoFlow}
    ELSE RetriedOutcomes

\* An attempt begins: next() runs the limiter up to its return, or the
\* timeout up to its call of next().
ShieldedAttempt ==
    /\ RetryBegins \/ RetryResumes
    /\ IF rPc' # "awaiting"
       THEN UNCHANGED <<now, rateVars, timeoutVars>>
       ELSE IF tOptions = NoTimeoutOptions
            THEN AttemptLimited /\ UNCHANGED <<rlDispatches, timeoutVars>>
            ELSE TimeoutBegins(RetriedContext.name) /\ UNCHANGED <<now, rateVars>>
    /\ UNCHANGED <<regVars, chainVars, cacheVars, uriVars, authVars, metricsVars>>

\* The attempt settles.
ShieldedSettle(out, rnd) ==
    /\ out \in ShieldedOutcomes
    /\ RetryCatches(out, rnd)
    /\ IF tOptions = NoTimeoutOptions
       THEN UNCHANGED timeoutVars
       ELSE TimeoutDropped
    /\ UNCHANGED <<now, rateVars, regVars, chainVars, cacheVars, uriVars, authVars, metricsVars>>

(***************************************************************************)
(* use(timeout(...)); use(retry(...)): the timeout's next() is retry,      *)
(* whose next() is the handler.  tLog also notes each later call of the    *)
(* handler ("next") between the callbacks of the timeout.                  *)
(***************************************************************************)
\* The timeout is called: it sets the timer and calls next(), which is
\* retry beginning its first attempt.
OutlivedCall ==
    /\ TimeoutBegins(RetriedContext.name)
    /\ RetryBegins
    /\ UNCHANGED <<now, regVars, chainVars, rateVars, cacheVars, uriVars, authVars, metricsVars>>

\* retry has settled: the then / catch callback of the timeout runs.
RetryReturns ==
    IF rPc' = "done"
    THEN NextSettled(rOutcome')
    ELSE UNCHANGED timeoutVars

OutlivedTimerStopsRetry ==
    /\ TimerRuns
    /\ rPc' = "done"
    /\ rOutcome' = TimeoutResult(tOptions, tCtx)
    /\ UNCHANGED <<rOptions, rAttempt, rLastError, rLog>>
    /\ UNCHANGED <<regVars, chainVars, rateVars, cacheVars, uriVars, authVars, metricsVars>>

\* The timer callback runs: nothing of retry is touched.
OutlivedTimer ==
    /\ TimerRuns
    /\ UNCHANGED retryVars
    /\ UNCHANGED <<regVars, chainVars, rateVars, cacheVars, uriVars, authVars, metricsVars>>

\* The handler settles an attempt.
OutlivedSettle(out, rnd) ==
    /\ RetryCatches(out, rnd)
    /\ RetryReturns
    /\ UNCHANGED <<now, regVars, chainVars, rateVars, cacheVars, uriVars, authVars, metricsVars>>

\* The sleep is over: the handler is called again.
OutlivedWake ==
    /\ RetryResumes
    /\ IF rPc' = "done"
       THEN NextSettled(rOutcome')
       ELSE /\ tLog' = Append(tLog, "next")
            /\ UNCHANGED <<tOptions, tCtx, settled, timer, tDue, tNext, tPromise,
                           tSettles, tOnTimeout>>
    /\ UNCHANGED <<now, regVars, chainVars, rateVars, cacheVars, uriVars, authVars, metricsVars>>

(***************************************************************************)
(* Natural numbers of any size, as their digits in base 2^16, least        *)
(* significant first and without leading zeros; <<>> is 0.  The small      *)
(* numbers n they are multiplied and divided by are below 2^15.            *)
(***************************************************************************)
Base == 65536
BaseBits == 16

RECURSIVE BigTrim(_)
BigTrim(a) ==
    IF a = <<>> \/ a[Len(a)] # 0 THEN a ELSE BigTrim(SubSeq(a, 1, Len(a) - 1))

RECURSIVE BigOfNat(_)
BigOfNat(n) == IF n = 0 THEN <<>> ELSE <<n % Base>> \o BigOfNat(n \div Base)

BigDigit(a, i) == IF i <= Len(a) THEN a[i] ELSE 0

RECURSIVE BigAddFrom(_, _, _, _)
BigAddFrom(a, b, i, carry) ==
    IF i > Len(a) /\ i > Len(b)
    THEN BigOfNat(carry)
    ELSE LET s == BigDigit(a, i) + BigDigit(b, i) + carry
         IN  <<s % Base>> \o BigAddFrom(a, b, i + 1, s \div Base)

BigAdd(a, b) == BigAddFrom(a, b, 1, 0)

\* a * n
RECURSIVE BigMulFrom(_, _, _, _)
BigMulFrom(a, n, i, carry) ==
    IF i > Len(a)
    THEN BigOfNat(carry)
    ELSE LET s == a[i] * n + carry
         IN  <<s % Base>> \o BigMulFrom(a, n, i + 1, s \div Base)

BigMul(a, n) == BigTrim(BigMulFrom(a, n, 1, 0))

\* Long division of the digits i.. of a by n > 0: quotient digits and
\* remainder.
RECURSIVE BigDivFrom(_, _, _)
BigDivFrom(a, n, i) ==
    IF i > Len(a)
    THEN [q |-> <<>>, r |-> 0]
    ELSE LET up  == BigDivFrom(a, n, i + 1)
             cur == up.r * Base + a[i]
         IN  [q |-> <<cur \div n>> \o up.q, r |-> cur % n]

BigDiv(a, n) ==
    LET d == BigDivFrom(a, n, 1) IN [q |-> BigTrim(d.q), r |-> d.r]

\* The number of binary digits of a digit, and of a number.
BitLength(n) ==
    CHOOSE k \in 0..BaseBits : n < 2^k /\ (k = 0 \/ n >= 2^(k - 1))

BigBits(a) ==
    IF a = <<>> THEN 0 ELSE (Len(a) - 1) * BaseBits + BitLength(a[Len(a)])

\* a * 2^k
BigShl(a, k) ==
    IF a = <<>> THEN <<>>
    ELSE [i \in 1..(k \div BaseBits) |-> 0] \o BigMul(a, 2^(k % BaseBits))

\* a / 2^k: the quotient, and whether binary digits other than 0 were lost.
BigShr(a, k) ==
    LET whole == k \div BaseBits
        rest  == BigDiv(SubSeq(a, whole + 1, Len(a)), 2^(k % BaseBits))
    IN  [q |-> rest.q,
         inexact |-> rest.r # 0 \/ \E i \in 1..whole : BigDigit(a, i) # 0]

(***************************************************************************)
(* JavaScript numbers that are not integers: IEEE 754 binary64, value      *)
(* m * 2^e with m of exactly 53 binary digits, or 0.  Every operation      *)
(* rounds its exact result to the nearest such number, ties to even.       *)
(***************************************************************************)
Precision == 53

FloatZero == [m |-> <<>>, e |-> 0]

\* The number nearest to m * 2^e (plus a little, when inexact is true).
FloatRound(m, e, inexact) ==
    LET bits == BigBits(m)
        drop == bits - Precision
    IN  IF m = <<>> THEN FloatZero
        ELSE IF drop <= 0
        THEN [m |-> BigShl(m, 0 - drop), e |-> e + drop]
        ELSE LET s    == BigShr(m, drop - 1)
                 half == s.q[1] % 2 = 1
                 kept == BigShr(s.q, 1).q
                 up   == half /\ (inexact \/ s.inexact \/ kept[1] % 2 = 1)
                 r    == IF up THEN BigAdd(kept, <<1>>) ELSE kept
             IN  IF BigBits(r) > Precision
                 THEN [m |-> BigShr(r, 1).q, e |-> e + drop + 1]
                 ELSE [m |-> r, e |-> e + drop]

FloatOfNat(n) == FloatRound(BigOfNat(n), 0, FALSE)

\* x * n, x + n and x / n for a number x >= 0 and an integer n >= 0
FloatMul(x, n) == FloatRound(BigMul(x.m, n), x.e, FALSE)

FloatAdd(x, n) ==
    IF x.e <= 0
    THEN FloatRound(BigAdd(x.m, BigShl(BigOfNat(n), 0 - x.e)), x.e, FALSE)
    ELSE FloatRound(BigAdd(BigShl(x.m, x.e), BigOfNat(n)), 0, FALSE)

FloatDiv(x, n) ==
    LET extra == BitLength(n) + 2
        d     == BigDiv(BigShl(x.m, extra), n)
    IN  FloatRound(d.q, x.e - extra, d.r # 0)

(***************************************************************************)
(* metrics(options).  Date.now() is read when a call starts and again when *)
(* next() has settled; the second reading is later by some elapsed time.   *)
(***************************************************************************)
MetricsContexts ==
    { [type |-> "tool", name |-> "a"], [type |-> "resource", name |-> "a"] }

\* The options the middleware is built with.
MetricsOptionSets ==
    { [store |-> TRUE,  maxPerHandler |-> 1],
      [store |-> TRUE,  maxPerHandler |-> 2],
      [store |-> FALSE, maxPerHandler |-> 2] }

NoMetricsOptions == [store |-> FALSE, maxPerHandler |-> 0]

\* What next() may settle with, and how long it may take.
MetricsOutcomes ==
    { Returns(Envelope("done", "absent")), Returns(Envelope("failed", "true")),
      Throws(JsError("boom")) }

Elapsed == {1}

\* One handler called again and again: always resolving, taking 2 or 5 ms.
SampleContexts == { [type |-> "tool", name |-> "a"] }
SampleOptionSets == { [store |-> TRUE, maxPerHandler |-> 2] }
SampleOutcomes == { Returns(JsString("ok")) }
SampleElapsed == {2, 5}

\* Infinity, and an integer, as numbers Math.min and Math.max compare
Infinity == Rat(1, 0)

Integer(n) == Rat(n, 1)

getStoreKey(type, name) == type \o ":" \o name

\* The store made for a key that has none.
NewStore(metric, t) ==
    [metrics |-> <<>>,
     aggregate |-> [name |-> metric.name, type |-> metric.type,
                    callCount |-> 0, successCount |-> 0, errorCount |-> 0,
                    avgDurationMs |-> FloatZero,
                    minDurationMs |-> Infinity,
                    maxDurationMs |-> Integer(0),
                    lastCall |-> t]]

\* s.metrics.push(metric); if (s.metrics.length > maxPerHandler) s.metrics.shift()
StoreMetricShiftsAtLimit(metricList, metric, maxPerHandler) ==
    LET pushed == Append(metricList, metric)
    IN  IF Len(pushed) >= maxPerHandler THEN Tail(pushed) ELSE pushed

StoreMetricDropsNewest(metricList, metric, maxPerHandler) ==
    LET pushed == Append(metricList, metric)
    IN  IF Len(pushed) > maxPerHandler
        THEN SubSeq(pushed, 1, Len(pushed) - 1)
        ELSE pushed

StoreMetric(metricList, metric, maxPerHandler) ==
    LET pushed == Append(metricList, metric)
    IN  IF Len(pushed) > maxPerHandler THEN Tail(pushed) ELSE pushed

\* The aggregate after one more metric.
UpdateAggregatesHalvesWithLast(agg, metric) ==
    LET callCount == agg.callCount + 1
    IN  [agg EXCEPT
           !.callCount = callCount,
           !.avgDurationMs = FloatDiv(FloatAdd(agg.avgDurationMs, metric.durationMs),
                                      IF callCount = 1 THEN 1 ELSE 2),
           !.minDurationMs = MathMin(agg.minDurationMs, Integer(metric.durationMs)),
           !.maxDurationMs = MathMax(agg.maxDurationMs, Integer(metric.durationMs)),
           !.lastCall = metric.timestamp,
           !.successCount = IF metric.success THEN @ + 1 ELSE @,
           !.errorCount = IF metric.success THEN @ ELSE @ + 1]

UpdateAggregates(agg, metric) ==
    LET prevTotal == FloatMul(agg.avgDurationMs, agg.callCount)
        callCount == agg.callCount + 1
    IN  [agg EXCEPT
           !.callCount = callCount,
           !.avgDurationMs = FloatDiv(FloatAdd(prevTotal, metric.durationMs), callCount),
           !.minDurationMs = MathMin(agg.minDurationMs, Integer(metric.durationMs)),
           !.maxDurationMs = MathMax(agg.maxDurationMs, Integer(metric.durationMs)),
           !.lastCall = metric.timestamp,
           !.successCount = IF metric.success THEN @ + 1 ELSE @,
           !.errorCount = IF metric.success THEN @ ELSE @ + 1]

\* recordMetric, after onMetric: the stores Map it leaves, t being the
\* clock as it runs.
recordMetric(options, st, metric, t) ==
    IF ~options.store THEN st
    ELSE LET key == getStoreKey(metric.type, metric.name)
             s   == IF key \in DOMAIN st THEN st[key] ELSE NewStore(metric, t)
         IN  With(st, key,
                  [metrics |-> StoreMetric(s.metrics, metric, options.maxPerHandler),
                   aggregate |-> UpdateAggregates(s.aggregate, metric)])

\* success, as the middleware decides it from what next() settled with
MetricSuccessIgnoresIsError(out) == out.tag = "value"

MetricSuccess(out) == out.tag = "value" /\ out.v.isError # "true"

\* errorMessage: <<>> stands for undefined.
MetricError(out) ==
    IF out.tag = "throw"
    THEN <<IF out.v.t = "Error" THEN out.v.s ELSE StringOf(out.v)>>
    ELSE IF out.v.isError = "true" THEN <<out.v.s>> ELSE <<>>

\* The metric the finally block records for the call p, next() having
\* settled with out and the clock reading t.
MetricOf(p, out, t) ==
    [name |-> p.ctx.name, type |-> p.ctx.type, durationMs |-> t - p.startTime,
     success |-> MetricSuccess(out), timestamp |-> p.timestamp,
     error |-> MetricError(out)]

\* What the middleware settles with: return result, or throw error.
MetricsReturn(out) == out

NoMetricsCall == [id |-> 0, next |-> NoFlow, out |-> NoFlow]

\* The middleware is called: it reads the clock and awaits next().
MetricsBegin(ctx, maxCalls, maxPending) ==
    /\ mCalls < maxCalls
    /\ Cardinality(mPending) < maxPending
    /\ mCalls' = mCalls + 1
    /\ mPending' = mPending \cup
          {[id |-> mCalls + 1, ctx |-> ctx, startTime |-> now, timestamp |-> now]}
    /\ UNCHANGED <<regVars, chainVars, now, rateVars, cacheVars, retryVars, timeoutVars, uriVars, authVars,
                   mOptions, stores, mOnMetric, mResetAt, mLast>>

\* next() settled with out, elapsed ms after the clock was last read: the
\* finally block records the metric, then the result or the error goes on.
MetricsFinish(p, out, elapsed) ==
    /\ p \in mPending
    /\ mPending' = mPending \ {p}
    /\ now' = now + elapsed
    /\ LET metric == MetricOf(p, out, now')
       IN  /\ mOnMetric' = Append(mOnMetric, metric)
           /\ stores' = recordMetric(mOptions, stores, metric, now')
    /\ mLast' = [id |-> p.id, next |-> out, out |-> MetricsReturn(out)]
    /\ UNCHANGED <<regVars, chainVars, rateVars, cacheVars, retryVars, timeoutVars, uriVars, authVars,
                   mOptions, mCalls, mResetAt>>

\* reset(): stores.clear()
MetricsReset ==
    /\ stores # <<>>
    /\ stores' = <<>>
    /\ mResetAt' = Len(mOnMetric)
    /\ UNCHANGED <<regVars, chainVars, now, rateVars, cacheVars, retryVars, timeoutVars, uriVars, authVars,
                   mOptions, mPending, mCalls, mOnMetric, mLast>>

(***************************************************************************)
(* auth(options)                                                           *)
(***************************************************************************)
\* ctx.headers: undefined (stdio), or a map with or without "authorization"
NoHeaders == [present |-> FALSE, authorization |-> JsUndefined]

Headers(authorization) == [present |-> TRUE, authorization |-> authorization]

AuthHeaders ==
    { NoHeaders, Headers(JsUndefined), Headers(JsString("")),
      Headers(JsString("my-token")), Headers(JsString("invalid-token")) }

\* The options the middleware is built with.  extractToken is
\* headers => headers["authorization"] or () => "token".
AuthOptionSets ==
    [skipStdio : BOOLEAN, extractToken : {"authorization", "constant"},
     messages : {"default", "custom"}]

NoAuthOptions == [skipStdio |-> TRUE, extractToken |-> "none", messages |-> "none"]

\* What validate may settle with: auth data, null, or a rejection.
ValidateOutcomes ==
    { Returns(JsObject("{\"userId\":\"123\"}")), Returns(JsNull),
      Throws(JsError("db down")) }

AuthNextOutcomes == { Returns(JsString("result")), Throws(JsError("boom")) }

missingTokenMessage(options) ==
    IF options.messages = "custom" THEN "Please provide API key"
    ELSE "Authentication required"

invalidTokenMessage(options) ==
    IF options.messages = "custom" THEN "API key is invalid"
    ELSE "Invalid authentication token"

\* skipStdio && !ctx.headers
SkipsWithoutHeadersAlways(options, headers) == ~headers.present

SkipsAuth(options, headers) == options.skipStdio /\ ~headers.present

\* extractToken(ctx.headers ?? {})
extractToken(options, headers) ==
    IF options.extractToken = "constant" THEN JsString("token")
    ELSE headers.authorization

\* !token
NoTokenOnlyUndefined(token) == token = JsUndefined

NoToken(token) == token = JsUndefined \/ token = JsString("")

\* !authData
NoAuthData(authData) == authData = JsNull \/ authData = JsUndefined

NoAuthContext == [headers |-> NoHeaders, auth |-> JsUndefined]

\* The middleware is called: it skips to next(), or extracts the token and
\* throws without one, or awaits validate(token).
AuthCall(headers) ==
    /\ aPc = "idle"
    /\ aOptions # NoAuthOptions
    /\ aCtx' = [headers |-> headers, auth |-> JsUndefined]
    /\ IF SkipsAuth(aOptions, headers)
       THEN /\ aPc' = "next"
            /\ aLog' = Append(aLog, "next")
            /\ UNCHANGED <<aToken, aOutcome>>
       ELSE LET token == extractToken(aOptions, headers)
            IN  /\ aToken' = token
                /\ IF NoToken(token)
                   THEN /\ aPc' = "done"
                        /\ aLog' = Append(aLog, "extractToken")
                        /\ aOutcome' = Throws(JsError(missingTokenMessage(aOptions)))
                   ELSE /\ aPc' = "validating"
                        /\ aLog' = aLog \o <<"extractToken", "validate">>
                        /\ UNCHANGED aOutcome
    /\ UNCHANGED <<regVars, chainVars, now, rateVars, cacheVars, retryVars, timeoutVars, uriVars,
                   metricsVars, aOptions>>

\* validate(token) settled: without auth data the middleware throws; with
\* it, ctx.auth is set and next() is called.
AuthValidated(res) ==
    /\ aPc = "validating"
    /\ IF res.tag = "throw"
       THEN /\ aPc' = "done"
            /\ aOutcome' = res
            /\ UNCHANGED <<aCtx, aLog>>
       ELSE IF NoAuthData(res.v)
       THEN /\ aPc' = "done"
            /\ aOutcome' = Throws(JsError(invalidTokenMessage(aOptions)))
            /\ UNCHANGED <<aCtx, aLog>>
       ELSE /\ aPc' = "next"
            /\ aCtx' = [aCtx EXCEPT !.auth = res.v]
            /\ aLog' = aLog \o <<"set", "next">>
            /\ UNCHANGED aOutcome
    /\ UNCHANGED <<regVars, chainVars, now, rateVars, cacheVars, retryVars, timeoutVars, uriVars,
                   metricsVars, aOptions, aToken>>

\* return next(): the middleware settles as next() does.
AuthNextSettles(out) ==
    /\ aPc = "next"
    /\ aPc' = "done"
    /\ aOutcome' = out
    /\ UNCHANGED <<regVars, chainVars, now, rateVars, cacheVars, retryVars, timeoutVars, uriVars,
                   metricsVars, aOptions, aCtx, aToken, aLog>>

(***************************************************************************)
(* Resource templates.  A string is the sequence of its characters.  The   *)
(* templates hold no backslash and no parameter named by digits, so that   *)
(* a brace left in the pattern is an ordinary character of the RegExp.     *)
(***************************************************************************)
UriTemplates ==
    { <<"a", "/", "{", "x", "}", "/", "{", "y", "}">>,
      <<"a", "/", "{", "x", "}">>,
      <<"a", "/", "{", "x", "}", "/", "{", "x", "}">>,
      <<"a", ".", "b", "/", "{", "x", "}">>,
      <<"{", "x", "}", "/", "b">>,
      <<"a", "/", "{", "}">>,
      <<"a", "/", "b">> }

ReadUris ==
    { <<"a", "/", "1", "/", "2">>,
      <<"a", "/", "1">>,
      <<"a", "/", "1", "2">>,
      <<"a", "/">>,
      <<"a", "/", "/", "2">>,
      <<"a", "/", "1", "/", "2", "/", "3">>,
      <<"a", "/", "1", "/", "1">>,
      <<"a", ".", "b", "/", "1">>,
      <<"a", "c", "b", "/", "1">>,
      <<"1", "/", "b">>,
      <<"a", "/", "b">>,
      <<"a", "/", "{", "x", "}", "/", "{", "y", "}">>,
      <<"a", "/", "{", "x", "}">>,
      <<"a", "/", "{", "}">> }

\* The string of a sequence of characters.
RECURSIVE Join(_)
Join(chars) == IF chars = <<>> THEN "" ELSE Head(chars) \o Join(Tail(chars))

\* The index of the first "}" at or after i, 0 when there is none.
ClosingBrace(chars, i) ==
    IF \E k \in i..Len(chars) : chars[k] = "}"
    THEN CHOOSE k \in i..Len(chars) :
            chars[k] = "}" /\ \A l \in i..(k - 1) : chars[l] # "}"
    ELSE 0

\* extractTemplateParams: template.match(/\{([^}]+)\}/g), each without its
\* braces.
RECURSIVE extractTemplateParamsFrom(_, _)
extractTemplateParamsFrom(template, i) ==
    IF i > Len(template) THEN <<>>
    ELSE LET k == ClosingBrace(template, i + 1)
         IN  IF template[i] = "{" /\ k > i + 1
             THEN <<Join(SubSeq(template, i + 1, k - 1))>>
                     \o extractTemplateParamsFrom(template, k + 1)
             ELSE extractTemplateParamsFrom(template, i + 1)

extractTemplateParams(template) == extractTemplateParamsFrom(template, 1)

\* The characters the first replace of templateToRegex looks for.
SpecialChars ==
    {".", "*", "+", "?", "^", "$", "{", "}", "(", ")", "|", "[", "]", "\\"}

\* Its callback: a brace is returned as it is, any other of them after a
\* backslash.
Escape(char) ==
    [c |-> char, escaped |-> char \in SpecialChars /\ char \notin {"{", "}"}]

\* The second replace: every \{ ... \} of the escaped template, with at
\* least one character that is not "}" in between, becomes ([^/]+).
RECURSIVE ReplacePlaceholders(_, _)
ReplacePlaceholders(escaped, i) ==
    IF i > Len(escaped) THEN <<>>
    ELSE LET k == ClosingBrace([j \in 1..Len(escaped) |-> escaped[j].c], i + 1)
         IN  IF /\ escaped[i].c = "{" /\ escaped[i].escaped
                /\ k > i + 1 /\ escaped[k].escaped
             THEN <<[group |-> TRUE, c |-> ""]>> \o ReplacePlaceholders(escaped, k + 1)
             ELSE <<[group |-> FALSE, c |-> escaped[i].c]>>
                     \o ReplacePlaceholders(escaped, i + 1)

\* templateToRegex: the pattern between ^ and $, as the characters it
\* matches and the groups ([^/]+).
templateToRegex(template) ==
    ReplacePlaceholders([i \in 1..Len(template) |-> Escape(template[i])], 1)

\* Every way the pattern from i on matches the string from j on, as the
\* strings its groups capture.
RECURSIVE Captures(_, _, _, _)
Captures(pattern, i, string, j) ==
    IF i > Len(pattern)
    THEN IF j > Len(string) THEN {<<>>} ELSE {}
    ELSE IF pattern[i].group
    THEN UNION { { <<SubSeq(string, j, e)>> \o rest :
                     rest \in Captures(pattern, i + 1, string, e + 1) } :
                 e \in {e \in j..Len(string) :
                          \A l \in j..e : string[l] # "/"} }
    ELSE IF j <= Len(string) /\ string[j] = pattern[i].c
    THEN Captures(pattern, i + 1, string, j + 1)
    ELSE {}

\* Of two ways to match, the one the RegExp finds: its groups are greedy.
Greedier(c, d) ==
    \E k \in 1..Len(c) :
        /\ Len(c[k]) > Len(d[k])
        /\ \A l \in 1..(k - 1) : c[l] = d[l]

\* uriString.match(regexPattern): whether it matches, and match[1], ...
Match(pattern, string) ==
    LET all == Captures(pattern, 1, string, 1)
    IN  IF all = {} THEN [matched |-> FALSE, groups |-> <<>>]
        ELSE [matched |-> TRUE,
              groups |-> CHOOSE c \in all : \A d \in all \ {c} : Greedier(c, d)]

\* params[name] = match[index + 1] || "" for each name in turn
ParamsOf(paramNames, groups) ==
    [name \in {paramNames[i] : i \in 1..Len(paramNames)} |->
        LET last == CHOOSE i \in 1..Len(paramNames) :
                       /\ paramNames[i] = name
                       /\ \A l \in (i + 1)..Len(paramNames) : paramNames[l] # name
        IN  IF last <= Len(groups) THEN Join(groups[last]) ELSE ""]

NoRead == [template |-> 0, uri |-> <<>>, matched |-> FALSE, params |-> <<>>,
           read |-> FALSE]

\* The name the i-th template is registered under.
TemplateName(i) == "t" \o ToString(i)

\* resourceTemplate(name, uriTemplate, ...): the record is pushed on
\* this.resourceTemplates, and nothing else happens.
RegisterTemplate(template) ==
    /\ Len(resourceTemplates) < MaxTemplates
    /\ ResourceTemplate(TemplateName(Len(resourceTemplates) + 1), template)

\* setupServer, its loop over this.resourceTemplates: each record gets its
\* parameter names and its pattern, and a read callback that closes over
\* them is registered with the server.  It runs from start(), and with the
\* http transport at every new session, on a server of its own.
SetupServer ==
    /\ uTemplate' = [i \in 1..Len(resourceTemplates) |->
                       LET template == resourceTemplates[i].uriTemplate
                       IN  [uriTemplate |-> template,
                            paramNames |-> extractTemplateParams(template),
                            regexPattern |-> templateToRegex(template)]]
    /\ UNCHANGED <<regVars, chainVars, now, rateVars, cacheVars, retryVars, timeoutVars,
                   metricsVars, authVars, uRead>>

\* The read callback of the i-th template the server holds, up to the
\* params: it throws when the URI does not match the pattern.
ReadTemplate(i, uri) ==
    /\ i \in DOMAIN uTemplate
    /\ LET match == Match(uTemplate[i].regexPattern, uri)
       IN  uRead' = [template |-> i, uri |-> uri, matched |-> match.matched,
                     read |-> TRUE,
                     params |-> IF match.matched
                                THEN ParamsOf(uTemplate[i].paramNames, match.groups)
                                ELSE <<>>]
    /\ UNCHANGED <<regVars, chainVars, now, rateVars, cacheVars, retryVars, timeoutVars,
                   metricsVars, authVars, uTemplate>>

(***************************************************************************)
(* Specifications.                                                         *)
(***************************************************************************)
InitReg ==
    /\ tools = <<>>
    /\ resources = <<>>
    /\ resourceTemplates = <<>>
    /\ prompts = <<>>

InitChain ==
    /\ middlewares = <<>>
    /\ pc = "idle"
    /\ call = NoCall
    /\ idx = 0
    /\ flow = NoFlow
    /\ log = <<>>
    /\ outcome = NoOutcome

InitRate ==
    /\ buckets = <<>>
    /\ rlCalls = 0
    /\ rlNext = 0
    /\ rlLast = NoRateCall
    /\ rlWindow = <<>>
    /\ rlHandler = <<>>
    /\ rlDispatches = <<>>
    /\ rlAttempt = NoRateCall

\* No rate limiter has been built.
NoRateOptions == [maxRequests |-> 0, windowMs |-> 0, keys |-> "none"]

InitCache ==
    /\ store = <<>>
    /\ accessOrder = <<>>
    /\ pending = {}
    /\ cCalls = 0
    /\ cNext = 0
    /\ cLast = NoCacheCall
    /\ cStored = <<>>
    /\ cRecency = <<>>
    /\ createCacheStore = <<>>
    /\ cCleared = {}
    /\ cWrittenAt = <<>>

\* No cache has been built.
NoCacheOptions == [ttlMs |-> 0, maxEntries |-> 0, types |-> {}, keys |-> "none"]

InitRetry ==
    /\ rPc = "idle"
    /\ rAttempt = 0
    /\ rLastError = JsUndefined
    /\ rLog = <<>>
    /\ rOutcome = NoFlow

InitTimeout ==
    /\ tCtx = ""
    /\ settled = FALSE
    /\ timer = "none"
    /\ tDue = 0
    /\ tNext = NotCalled
    /\ tPromise = NoFlow
    /\ tSettles = 0
    /\ tOnTimeout = <<>>
    /\ tLog = <<>>

InitMetrics ==
    /\ stores = <<>>
    /\ mPending = {}
    /\ mCalls = 0
    /\ mOnMetric = <<>>
    /\ mResetAt = 0
    /\ mLast = NoMetricsCall

InitAuth ==
    /\ aCtx = NoAuthContext
    /\ aPc = "idle"
    /\ aToken = JsUndefined
    /\ aLog = <<>>
    /\ aOutcome = NoFlow

InitTemplate ==
    /\ uTemplate = <<>>
    /\ uRead = NoRead

InitState ==
    /\ InitReg /\ InitChain /\ InitRate /\ InitCache /\ InitRetry /\ InitTimeout
    /\ InitMetrics /\ InitAuth /\ InitTemplate
    /\ now = 0

\* A middleware that has not been built.
NoRate  == rlOptions = NoRateOptions
NoCaching == cOptions = NoCacheOptions
NoRetry == rOptions = NoRetryOptions
NoTimeout == tOptions = NoTimeoutOptions
NoMetrics == mOptions = NoMetricsOptions
NoAuth == aOptions = NoAuthOptions

\* No middleware has been built but the one named.
OnlyBuilt(middleware) ==
    /\ IF middleware = "rateLimit" THEN TRUE ELSE NoRate
    /\ IF middleware = "cache" THEN TRUE ELSE NoCaching
    /\ IF middleware = "retry" THEN TRUE ELSE NoRetry
    /\ IF middleware = "timeout" THEN TRUE ELSE NoTimeout
    /\ IF middleware = "metrics" THEN TRUE ELSE NoMetrics
    /\ IF middleware = "auth" THEN TRUE ELSE NoAuth

Init == InitState /\ OnlyBuilt("none")

\* The rate limiter may be built with any of the options.
InitRateSpec == InitState /\ OnlyBuilt("rateLimit") /\ rlOptions \in RateOptions

\* The limiter with dispatches in flight together.
InitRaceSpec == InitState /\ OnlyBuilt("rateLimit") /\ rlOptions \in RaceOptions

\* The cache before the timeout.
InitGuardedSpec ==
    /\ InitState
    /\ NoRate /\ NoRetry /\ NoMetrics /\ NoAuth
    /\ cOptions \in GuardedCacheOptions
    /\ tOptions \in GuardedTimeoutOptions

\* Retry before the limiter, or before the timeout.
InitShieldedSpec ==
    /\ InitState
    /\ NoCaching /\ NoMetrics /\ NoAuth
    /\ rOptions \in RetriedRetryOptions
    /\ \/ rlOptions \in ShieldedRateOptions /\ tOptions = NoTimeoutOptions
       \/ NoRate /\ tOptions \in GuardedTimeoutOptions

\* The timeout before retry.
InitOutlivedSpec ==
    /\ InitState
    /\ NoRate /\ NoCaching /\ NoMetrics /\ NoAuth
    /\ rOptions \in RetriedRetryOptions
    /\ tOptions \in TimeoutOptionSets

\* The cache before a slow handler.
InitSlowSpec == InitState /\ OnlyBuilt("cache") /\ cOptions \in SlowOptions

\* The retry middleware before the rate limiter.
InitRetriedSpec ==
    /\ InitState
    /\ NoCaching /\ NoTimeout /\ NoMetrics /\ NoAuth
    /\ rlOptions \in RetriedRateOptions
    /\ rOptions \in RetriedRetryOptions

\* The cache may be built with any of the options.
InitCacheSpec == InitState /\ OnlyBuilt("cache") /\ cOptions \in CacheOptionSets

\* The retry middleware may be built with any of the options.
InitRetrySpec == InitState /\ OnlyBuilt("retry") /\ rOptions \in RetryOptionSets

\* The timeout middleware may be built with any of the options.
InitTimeoutSpec == InitState /\ OnlyBuilt("timeout") /\ tOptions \in TimeoutOptionSets

\* The cache made by createCache: its middleware, and clear().
InitCreateCacheSpec ==
    InitState /\ OnlyBuilt("cache") /\ cOptions \in CreateCacheOptionSets

\* The metrics middleware may be built with any of the options.
InitMetricsSpec == InitState /\ OnlyBuilt("metrics") /\ mOptions \in MetricsOptionSets

\* One handler, called MaxSamples times one call after the other.
InitSamplesSpec == InitState /\ OnlyBuilt("metrics") /\ mOptions \in SampleOptionSets

\* The auth middleware may be built with any of the options.
InitAuthSpec == InitState /\ OnlyBuilt("auth") /\ aOptions \in AuthOptionSets

NextReg ==
    \/ \E name \in Names : Tool(name)
    \/ \E name \in Names, uri \in Uris : Resource(name, uri)
    \/ \E name \in Names, uri \in Uris : ResourceTemplate(name, uri)
    \/ \E name \in Names : Prompt(name)

\* The invocations that differ: a resource callback parses no arguments,
\* and only a template callback matches a URI.
Invocations ==
    { c \in [kind : Kinds, argsOk : BOOLEAN, matches : BOOLEAN] :
        /\ c.kind = "resource" => c.argsOk
        /\ c.kind # "template" => c.matches }

NextChain ==
    \/ \E beh \in Behaviours : Use(beh)
    \/ \E c \in Invocations, h \in HandlerOutcomes :
          Invoke(c.kind, "a", c.argsOk, c.matches, h)
    \/ Enter
    \/ CallHandler
    \/ Exit
    \/ Settle
    \/ Finish

NextRate ==
    \/ \E ctx \in Contexts : RateLimit(ctx)
    \/ RateSweep
    \/ RateTick

NextCache ==
    \/ \E ctx \in CacheContexts : CacheBegin(ctx)
    \/ \E p \in pending, out \in NextOutcomes : CacheFinish(p, out)
    \/ CacheSweep
    \/ CacheTick

NextGuarded ==
    \/ \E ctx \in GuardedContexts : GuardedBegin(ctx)
    \/ TimerFires
    \/ \E out \in TimeoutOutcomes : NextSettles(out)
    \/ \E p \in pending : GuardedReturn(p)
    \/ CacheSweep
    \/ SlowTick

NextShielded ==
    \/ ShieldedAttempt
    \/ \E out \in ShieldedOutcomes : ShieldedSettle(out, Rat(0, 1))
    \/ TimerFires
    \/ \E out \in TimeoutOutcomes : NextSettles(out)
    \/ SlowTick

NextOutlived ==
    \/ OutlivedCall
    \/ OutlivedTimer
    \/ \E out \in RetryOutcomes : OutlivedSettle(out, Rat(0, 1))
    \/ OutlivedWake
    \/ SlowTick

NextSlow ==
    \/ \E ctx \in SlowContexts : CacheBegin(ctx)
    \/ \E p \in pending, out \in NextOutcomes : SlowFinish(p, out)
    \/ CacheSweep
    \/ SlowTick

NextMetrics ==
    \/ \E ctx \in MetricsContexts : MetricsBegin(ctx, MaxMetricCalls, MaxMetricPending)
    \/ \E p \in mPending, out \in MetricsOutcomes, elapsed \in Elapsed :
          MetricsFinish(p, out, elapsed)
    \/ MetricsReset

NextSamples ==
    \/ \E ctx \in SampleContexts : MetricsBegin(ctx, MaxSamples, 1)
    \/ \E p \in mPending, out \in SampleOutcomes, elapsed \in SampleElapsed :
          MetricsFinish(p, out, elapsed)
    \/ MetricsReset

NextAuth ==
    \/ \E headers \in AuthHeaders : AuthCall(headers)
    \/ \E res \in ValidateOutcomes : AuthValidated(res)
    \/ \E out \in AuthNextOutcomes : AuthNextSettles(out)

NextTemplate ==
    \/ \E template \in UriTemplates : RegisterTemplate(template)
    \/ SetupServer
    \/ \E i \in 1..MaxTemplates, uri \in ReadUris : ReadTemplate(i, uri)

RaceTick ==
    /\ Tick(MaxRaceTime)
    /\ UNCHANGED <<regVars, chainVars, rateVars, cacheVars, retryVars, timeoutVars, uriVars, authVars, metricsVars>>

NextRace ==
    \/ \E ctx \in RaceContexts : RaceBegin(ctx)
    \/ \E i \in DOMAIN rlDispatches : RaceEnter(i)
    \/ \E i \in DOMAIN rlDispatches : RaceSettle(i)
    \/ RateSweep
    \/ RaceTick

NextRetried ==
    \/ RetriedAttempt
    \/ \E out \in RetriedOutcomes : RetriedSettle(out, Rat(0, 1))
    \/ RateLimit(OtherContext)
    \/ RateSweep
    \/ RateTick

NextRetry ==
    \/ RetryCall
    \/ \E out \in RetryOutcomes, rnd \in RandomDraws : RetrySettle(out, rnd)
    \/ RetryWake

NextTimeout ==
    \/ \E name \in Names : TimeoutCall(name)
    \/ TimerFires
    \/ \E out \in TimeoutOutcomes : NextSettles(out)
    \/ TimeoutTick

NextCreateCache ==
    \/ \E ctx \in CreateCacheContexts : CacheBegin(ctx)
    \/ \E p \in pending, out \in NextOutcomes : CacheFinish(p, out)
    \/ CacheSweep
    \/ CacheTick
    \/ CacheClear

SpecReg   == Init /\ [][NextReg]_vars
SpecChain == Init /\ [][NextChain]_vars
SpecRate  == InitRateSpec /\ [][NextRate]_vars
SpecCache == InitCacheSpec /\ [][NextCache]_vars
SpecCreateCache == InitCreateCacheSpec /\ [][NextCreateCache]_vars
SpecRetry == InitRetrySpec /\ [][NextRetry]_vars
SpecRace == InitRaceSpec /\ [][NextRace]_vars
SpecGuarded == InitGuardedSpec /\ [][NextGuarded]_vars
SpecShielded == InitShieldedSpec /\ [][NextShielded]_vars
SpecOutlived == InitOutlivedSpec /\ [][NextOutlived]_vars
SpecSlow == InitSlowSpec /\ [][NextSlow]_vars
SpecRetried == InitRetriedSpec /\ [][NextRetried]_vars
SpecTimeout == InitTimeoutSpec /\ [][NextTimeout]_vars
SpecMetrics == InitMetricsSpec /\ [][NextMetrics]_vars
SpecSamples == InitSamplesSpec /\ [][NextSamples]_vars
SpecAuth  == InitAuthSpec /\ [][NextAuth]_vars
SpecTemplate == Init /\ [][NextTemplate]_vars

(***************************************************************************)
(* Properties of the dispatch (SpecChain) and the registry (SpecReg).      *)
(***************************************************************************)
ChainLen == Len(middlewares)

\* The invocation passed validation and URI matching.
ReachesChain == call.kind = "resource" \/ (call.argsOk /\ call.matches)

AllAwait == \A i \in 1..ChainLen : middlewares[i].beh = "await"

EnterEvents(n) == [i \in 1..n |-> <<"enter", i>>]
ExitEvents(n)  == [i \in 1..n |-> <<"exit", n + 1 - i>>]

\* C1 (as claimed): with middleware M1..Mn registered in that order, each
\* awaiting next(), a finished dispatch has the event order enter(M1) ..
\* enter(Mn), handler, exit(Mn) .. exit(M1), the handler being invoked
\* exactly once.
C1_OnionOrder ==
    (pc = "done" /\ call.kind # "none" /\ ReachesChain /\ AllAwait) =>
        log = EnterEvents(ChainLen) \o << <<"handler", 0>> >> \o ExitEvents(ChainLen)

\* No middleware was registered since the dispatch began.
ChainKept == ChainLen = call.chain

\* C1 (amended): the same, for a dispatch during which no middleware is
\* registered.
C1_OnionOrderOfKeptChain ==
    (pc = "done" /\ call.kind # "none" /\ ReachesChain /\ AllAwait /\ ChainKept) =>
        log = EnterEvents(ChainLen) \o << <<"handler", 0>> >> \o ExitEvents(ChainLen)

C1_Witness ==
    /\ pc = "done"
    /\ ReachesChain
    /\ AllAwait
    /\ ChainKept
    /\ ChainLen >= 2
    /\ Len(log) = 2 * ChainLen + 1

InLog(e) == \E k \in 1..Len(log) : log[k] = e

\* C2: once a middleware Mi that returns without calling next() has been
\* entered, no Mj with j > i is entered, the handler is not invoked, and
\* the value Mi returned is what flows back out through M(i-1) .. M1 and
\* is what the callback settles from.
C2_ShortCircuit ==
    \A i \in 1..ChainLen :
        (middlewares[i].beh = "short" /\ InLog(<<"enter", i>>)) =>
            /\ \A j \in (i + 1)..ChainLen : ~InLog(<<"enter", j>>)
            /\ ~InLog(<<"handler", 0>>)
            /\ pc \in {"up", "done"}
            /\ flow = Returns(MwValue(i))
            /\ pc = "done" =>
                 outcome.value = IF call.kind = "tool"
                                 THEN NormalizeToolResult(MwValue(i))
                                 ELSE MwValue(i)

C2_Witness ==
    /\ pc = "done"
    /\ ChainLen >= 3
    /\ middlewares[2].beh = "short"
    /\ InLog(<<"enter", 2>>)
    /\ InLog(<<"exit", 1>>)

\* The message formatError reports for an exception that reached the
\* callback: an Error's message, otherwise the value as a string.
ReportedMessage(e) ==
    CASE e = JsError("boom")    -> "boom"
      [] e = JsString("oops")   -> "oops"
      [] e = JsNull             -> "null"
      [] e = ValidationError    -> "invalid arguments"
      [] OTHER                  -> e.s

\* C3: a tool invocation always resolves; when validation, a middleware or
\* the handler threw and nothing converted it, it resolves with the error
\* envelope {content: [{type: "text", text: "Error: <message>"}], isError: true}.
C3_ToolNeverRejects ==
    (pc = "done" /\ call.kind = "tool") =>
        /\ outcome.settle = "resolved"
        /\ flow.tag = "throw" =>
             outcome.value = Envelope("Error: " \o ReportedMessage(flow.v), "true")

C3_Witness ==
    /\ pc = "done"
    /\ call.kind = "tool"
    /\ call.argsOk
    /\ ChainLen >= 1
    /\ call.h = Throws(JsError("boom"))
    /\ InLog(<<"handler", 0>>)
    /\ flow.tag = "throw"
    /\ outcome.settle = "resolved"

\* C4: a resource, resource-template or prompt invocation whose chain or
\* handler throws rejects with that same exception, not with an envelope.
C4_ResourcePromptRethrow ==
    (pc = "done" /\ call.kind \in {"resource", "template", "prompt"}
                 /\ flow.tag = "throw") =>
        /\ outcome = [settle |-> "rejected", wrap |-> "none", value |-> flow.v]
        /\ (AllAwait /\ InLog(<<"handler", 0>>)) => outcome.value = call.h.v

C4_Witness ==
    /\ pc = "done"
    /\ call.kind = "resource"
    /\ ChainLen >= 1
    /\ AllAwait
    /\ call.h = Throws(JsError("boom"))
    /\ outcome.settle = "rejected"

\* Argument validation fails for the invocation.
ValidationFails ==
    call.kind \in {"tool", "prompt", "template"} /\ ~call.argsOk

\* C5: when argument validation fails, no middleware is entered and the
\* handler is not invoked: the invocation goes straight to the callback's
\* catch clause.
C5_ValidationBeforeChain ==
    ValidationFails =>
        /\ log = <<>>
        /\ idx = 0
        /\ pc \in {"up", "done"}
        /\ flow.tag = "throw"

C5_Witness ==
    /\ pc = "done"
    /\ call.kind = "tool"
    /\ ~call.argsOk
    /\ ChainLen >= 2
    /\ outcome.value = formatError(ValidationError)

\* C6 (as claimed): the registry never holds two tool records, or two
\* prompt records, with the same name.
C6_UniqueNames ==
    /\ \A i, j \in 1..Len(tools) : tools[i].name = tools[j].name => i = j
    /\ \A i, j \in 1..Len(prompts) : prompts[i].name = prompts[j].name => i = j

(***************************************************************************)
(* Properties of the rate limiter (SpecRate).                              *)
(***************************************************************************)
RateCalled == rlLast # NoRateCall

Smaller(a, b) == IF a <= b THEN a ELSE b

\* C7: of the calls for one key made inside one window, exactly the first
\* maxRequests invoke next(); every later one gets the isError envelope
\* instead of next()'s result, with retryAfterMs = resetTime - now.
C7_FirstMaxRequests ==
    RateCalled =>
        LET w == WindowOf(rlWindow, rlLast.key)
        IN  /\ rlLast.allowed <=> w.calls <= rlOptions.maxRequests
            /\ w.admitted = Smaller(w.calls, rlOptions.maxRequests)
            /\ rlLast.allowed => rlLast.result = NextResult
            /\ ~rlLast.allowed =>
                 /\ rlLast.result.t = "envelope"
                 /\ rlLast.result.isError = "true"
                 /\ rlLast.retryAfterMs = w.resetTime - rlLast.at
                 /\ rlLast.at < w.resetTime

C7_Witness ==
    /\ RateCalled
    /\ rlOptions.maxRequests = 2
    /\ ~rlLast.allowed
    /\ WindowOf(rlWindow, rlLast.key).calls = 3
    /\ rlNext = 2
    /\ rlLast.retryAfterMs = 1

\* C8: a call arriving at now >= resetTime of its key's bucket replaces the
\* bucket by {count: 0, resetTime: now + windowMs} before the limit is
\* evaluated, so with maxRequests >= 1 the call is allowed and counted.
C8_WindowReset ==
    (RateCalled /\ rlLast.prev # NoBucket /\ rlLast.at >= rlLast.prev.resetTime) =>
        /\ rlLast.post.resetTime = rlLast.at + rlOptions.windowMs
        /\ rlOptions.maxRequests >= 1 => (rlLast.allowed /\ rlLast.post.count = 1)
        /\ rlOptions.maxRequests < 1 => (~rlLast.allowed /\ rlLast.post.count = 0)

C8_Witness ==
    /\ RateCalled
    /\ rlOptions.maxRequests >= 1
    /\ rlLast.prev # NoBucket
    /\ rlLast.prev.count = rlOptions.maxRequests
    /\ rlLast.at = rlLast.prev.resetTime
    /\ rlLast.allowed
    /\ rlLast.post = [count |-> 1, resetTime |-> rlLast.at + rlOptions.windowMs]

\* C9: buckets are isolated by key.  Two calls share a bucket exactly when
\* the policy puts them together ((type, name) per handler, everything when
\* global, the generated string with a key generator), and a call is
\* denied only when the calls of its own group have used up the window.
C9_KeyIsolation ==
    /\ \A c1, c2 \in Contexts :
         (BucketKey(rlOptions, c1) = BucketKey(rlOptions, c2))
            <=> (Identity(rlOptions, c1) = Identity(rlOptions, c2))
    /\ RateCalled =>
         LET own == WindowOf(rlHandler, Identity(rlOptions, rlLast.ctx))
         IN  /\ ~rlLast.allowed => own.admitted = rlOptions.maxRequests
             /\ rlLast.allowed => own.admitted <= rlOptions.maxRequests
             /\ rlLast.post.count = own.admitted

C9_Witness ==
    /\ RateCalled
    /\ rlOptions.keys = "perHandler"
    /\ rlOptions.maxRequests = 1
    /\ rlLast.allowed
    /\ \E k \in DOMAIN buckets :
         /\ k # rlLast.key
         /\ buckets[k].count = rlOptions.maxRequests
         /\ now < buckets[k].resetTime
         /\ WindowOf(rlWindow, k).calls > rlOptions.maxRequests

(***************************************************************************)
(* Properties of the cache (SpecCache).                                    *)
(***************************************************************************)
\* The latest call begun was subject to caching (neither bypass applied).
CacheLooked == cLast.mode \in {"hit", "miss"}

\* C10 (as claimed): once a call with key k has completed and stored its
\* result, every later call with key k made before that entry's expiresAt
\* is a hit returning that result.
C10_HitAfterStore ==
    (CacheLooked /\ cLast.stored # NoEntry /\ cLast.at < cLast.stored.expiresAt) =>
        /\ cLast.mode = "hit"
        /\ cLast.result = cLast.stored.value

\* C10 (amended): what the store holds under k is the entry written by the
\* latest call with key k that completed and stored; a call with key k
\* made while the store still holds that entry and now < expiresAt does
\* not invoke next() and returns exactly the stored value.
C10_HitWhileHeld ==
    /\ \A k \in DOMAIN store : k \in DOMAIN cStored /\ store[k] = cStored[k]
    /\ (CacheLooked /\ cLast.entry # NoEntry /\ cLast.at < cLast.entry.expiresAt) =>
          /\ cLast.mode = "hit"
          /\ cLast.result = cLast.entry.value
          /\ cLast.entry = cLast.stored
          /\ \A p \in pending : p.id # cLast.id

C10_Witness ==
    /\ cLast.mode = "hit"
    /\ cLast.entry = [value |-> JsString("r1"), expiresAt |-> 2]
    /\ cLast.at = 1
    /\ cLast.result = JsString("r1")
    /\ cCalls = 2
    /\ cNext = 1

\* The store is at capacity and every key it holds is unexpired.
StoreFull ==
    /\ Cardinality(DOMAIN store) = cOptions.maxEntries
    /\ \A k \in DOMAIN store : now < store[k].expiresAt

\* The held key whose most recent access (write or hit) is the oldest.
LruKey ==
    LET held == {i \in 1..Len(cRecency) : cRecency[i] \in DOMAIN store}
    IN  cRecency[CHOOSE i \in held : \A j \in held : i <= j]

\* C11: when the store holds maxEntries unexpired keys and a result for a
\* new distinct key is written, exactly one key is evicted and it is the
\* least recently accessed one.
C11_LruEviction ==
    [][ (StoreFull /\ DOMAIN store' \ DOMAIN store # {}) =>
            DOMAIN store \ DOMAIN store' = {LruKey} ]_vars

\* The step begins a call whose key was last written with an entry that
\* has expired by the time of the call (swept from the store or not).
BeginsOnExpired ==
    /\ cCalls' = cCalls + 1
    /\ cLast'.key # <<>>
    /\ cLast'.stored # NoEntry
    /\ cLast'.at >= cLast'.stored.expiresAt

\* The calls that return in the step.
Returning == pending \ pending'

\* The call p, now returning, is one that began on an expired entry.
FinishesOnExpired(p) ==
    /\ p.id = cLast.id
    /\ p.mode = "miss"
    /\ cLast.stored # NoEntry
    /\ cLast.at >= cLast.stored.expiresAt

\* C12 (as claimed): a call with key k made at now >= expiresAt of the
\* entry stored under k is a miss, invokes next() and replaces the entry,
\* whether or not the sweep has removed the expired entry.
C12_ExpiredReplaces ==
    [][ /\ BeginsOnExpired =>
              /\ cLast'.mode = "miss"
              /\ cNext' = cNext + 1
        /\ \A p \in Returning, out \in NextOutcomes :
              (FinishesOnExpired(p) /\ CacheFinish(p, out)) =>
                  /\ p.key[1] \in DOMAIN store'
                  /\ store'[p.key[1]] # cLast.stored
                  /\ store'[p.key[1]].expiresAt = p.at + cOptions.ttlMs ]_vars

\* C12 (amended): a call with key k made at now >= expiresAt of the entry
\* stored under k is a miss and invokes next(), whether or not the sweep
\* has removed the entry; when that next() resolves the call returns the
\* result and puts a new entry under k, holding it and expiring at (time
\* of the call) + ttlMs; when it rejects the call lets the rejection
\* through and leaves the store and the access order as they are.
C12_ExpiredIsMiss ==
    [][ /\ BeginsOnExpired =>
              /\ cLast'.mode = "miss"
              /\ cNext' = cNext + 1
              /\ \E q \in pending' \ pending : q.id = cLast'.id /\ q.key = cLast'.key
        /\ \A p \in Returning, out \in NextOutcomes :
              (p.mode = "miss" /\ out.tag = "value" /\ CacheFinish(p, out)) =>
                  /\ p.key[1] \in DOMAIN store'
                  /\ store'[p.key[1]] =
                        [value |-> out.v, expiresAt |-> p.at + cOptions.ttlMs]
                  /\ CacheReturn(p, out) = out
        /\ \A p \in Returning, out \in NextOutcomes :
              (p.mode = "miss" /\ out.tag = "throw" /\ CacheFinish(p, out)) =>
                  /\ store' = store
                  /\ accessOrder' = accessOrder
                  /\ CacheReturn(p, out) = out ]_vars

\* An expired entry was swept, the key was called again, and the result of
\* that call is now in the store.
C12_Witness ==
    /\ cOptions.keys = "default"
    /\ cOptions.maxEntries = 2
    /\ \A p \in pending : p.id # cLast.id
    /\ cLast.mode = "miss"
    /\ cLast.entry = NoEntry
    /\ cLast.stored # NoEntry
    /\ cLast.at >= cLast.stored.expiresAt
    /\ cLast.key[1] \in DOMAIN store
    /\ store[cLast.key[1]].expiresAt = cLast.at + cOptions.ttlMs
    /\ store[cLast.key[1]] # cLast.stored

\* The type of ctx is not a configured one, or its key is null.
Bypasses(ctx) ==
    \/ ctx.type \notin cOptions.types
    \/ generateKey(cOptions, ctx) = <<>>

\* C13: a call whose type is not among the configured types, or whose key
\* generator returns null, invokes next(), settles with what next()
\* settled with, and neither reads nor changes the store or the access
\* order, when it begins or when it returns.
C13_Bypass ==
    [][ /\ (cCalls' = cCalls + 1 /\ Bypasses(cLast'.ctx)) =>
              /\ cNext' = cNext + 1
              /\ \E q \in pending' \ pending : q.id = cLast'.id
              /\ cLast'.entry = NoEntry
              /\ cLast'.result = None
              /\ store' = store
              /\ accessOrder' = accessOrder
        /\ \A p \in Returning :
              Bypasses(p.ctx) =>
                  /\ \A out \in NextOutcomes : CacheReturn(p, out) = out
                  /\ store' = store
                  /\ accessOrder' = accessOrder ]_vars

\* A resource call went through a cache of tools that holds an entry, and
\* has returned.
C13_Witness ==
    /\ cOptions.types = {"tool"}
    /\ cOptions.keys = "default"
    /\ cLast.ctx.type = "resource"
    /\ cLast.mode = "bypass"
    /\ \A p \in pending : p.id # cLast.id
    /\ cNext = cCalls
    /\ cCalls >= 2
    /\ store # <<>>

(***************************************************************************)
(* Properties of createCache (SpecCreateCache).                            *)
(***************************************************************************)
\* C14: after clear() the next call through the middleware with a key
\* that was cached before clear() is a miss and invokes next() again.
C14_ClearForgets ==
    [][ (cCalls' = cCalls + 1 /\ cLast'.key # <<>> /\ cLast'.key[1] \in cCleared) =>
            /\ cLast'.mode = "miss"
            /\ cNext' = cNext + 1 ]_vars

(***************************************************************************)
(* Properties of the retry middleware (SpecRetry).                         *)
(***************************************************************************)
\* The positions of the log that hold an event of the kind ev.
RetryEvents(ev) == {i \in 1..Len(rLog) : rLog[i].ev = ev}

NextCalls == Cardinality(RetryEvents("next"))

Sleeps == Cardinality(RetryEvents("sleep"))

\* C15: one dispatch invokes next() at most maxRetries + 1 times, whatever
\* the attempts settle with and whatever shouldRetry answers.
C15_AtMostMaxRetriesPlusOne == NextCalls <= rOptions.maxRetries + 1

\* Two failures were retried and the third attempt succeeded.
C15_Witness ==
    /\ rPc = "done"
    /\ rOptions.maxRetries = 2
    /\ NextCalls = 3
    /\ rOutcome = Returns(JsString("success"))

\* The latest rejection in the log.
LastRejected == rLog[CHOOSE i \in RetryEvents("rejected") :
                        \A j \in RetryEvents("rejected") : j <= i]

\* The predicate the middleware was built with answers false for error.
SaysNo(error) ==
    \/ rOptions.shouldRetry = "never"
    \/ rOptions.shouldRetry = "unlessNoRetry" /\ error = JsError("no-retry")

\* Every attempt failed, and shouldRetry said yes whenever it was asked.
AllFailedAllRetried ==
    /\ rPc = "done"
    /\ rOutcome.tag = "throw"
    /\ \A i \in RetryEvents("rejected") :
          rLog[i].attempt <= rOptions.maxRetries => ~SaysNo(rLog[i].error)

\* C16: when every attempt fails and shouldRetry returns true each time it
\* is consulted, next() is invoked exactly maxRetries + 1 times, exactly
\* maxRetries sleeps occur, and the middleware rejects with the error of
\* the last attempt.
C16_Exhaustion ==
    AllFailedAllRetried =>
        /\ NextCalls = rOptions.maxRetries + 1
        /\ Sleeps = rOptions.maxRetries
        /\ LastRejected.attempt = rOptions.maxRetries + 1
        /\ rOutcome = Throws(LastRejected.error)

\* Three attempts failed, the last with an error unlike the first.
C16_Witness ==
    /\ AllFailedAllRetried
    /\ rOptions.maxRetries = 2
    /\ NextCalls = 3
    /\ \E i \in RetryEvents("rejected") : rLog[i].error # LastRejected.error
    /\ rOutcome = Throws(JsError("no-retry"))

\* C17: when an attempt fails with e and shouldRetry(e, ctx) is false, the
\* middleware rejects at once with e: the rejection is the last thing that
\* happened, with no onRetry, no sleep and no further next(), even if
\* attempts remain.
C17_ShouldRetryGates ==
    \A i \in RetryEvents("rejected") :
        SaysNo(rLog[i].error) =>
            /\ i = Len(rLog)
            /\ rPc = "done"
            /\ rOutcome = Throws(rLog[i].error)

\* The second attempt of four allowed failed with an error not to be
\* retried.
C17_Witness ==
    /\ rOptions.shouldRetry = "unlessNoRetry"
    /\ rOptions.maxRetries = 3
    /\ rPc = "done"
    /\ NextCalls = 2
    /\ Sleeps = 1
    /\ rOutcome = Throws(JsError("no-retry"))

\* initialDelayMs * backoffMultiplier^(attempt-1), capped at maxDelayMs, as
\* the fraction num / den.
UncappedNum(attempt) == rOptions.initialDelayMs.n * rOptions.backoffMultiplier.n ^ (attempt - 1)

UncappedDen(attempt) == rOptions.initialDelayMs.d * rOptions.backoffMultiplier.d ^ (attempt - 1)

Capped(attempt) ==
    UncappedNum(attempt) * rOptions.maxDelayMs.d > rOptions.maxDelayMs.n * UncappedDen(attempt)

ClaimedNum(attempt) ==
    IF Capped(attempt) THEN rOptions.maxDelayMs.n ELSE UncappedNum(attempt)

ClaimedDen(attempt) ==
    IF Capped(attempt) THEN rOptions.maxDelayMs.d ELSE UncappedDen(attempt)

NoJitter == rOptions.jitter.n = 0

\* C18 (as claimed): with jitter = 0 the delay before retry number attempt
\* is exactly min(initialDelayMs * backoffMultiplier^(attempt-1),
\* maxDelayMs).
C18_DelayIsExactlyTheMin ==
    NoJitter =>
        \A i \in RetryEvents("onRetry") :
            rLog[i].delayMs * ClaimedDen(rLog[i].attempt) = ClaimedNum(rLog[i].attempt)

\* C18 (amended): with jitter = 0 the delay before retry number attempt is
\* min(initialDelayMs * backoffMultiplier^(attempt-1), maxDelayMs) rounded
\* to the nearest integer (a half rounds up), which is the min itself when
\* that is an integer; for initialDelayMs = 1000, backoffMultiplier = 2,
\* maxDelayMs = 3000 the delays are 1000, 2000, 3000; the delay never
\* exceeds maxDelayMs (a whole number of milliseconds), and for
\* backoffMultiplier >= 1 the delays are non-decreasing in attempt.
C18_DelayIsTheRoundedMin ==
    NoJitter =>
        /\ \A i \in RetryEvents("onRetry") :
              LET m == rLog[i].delayMs
                  num == ClaimedNum(rLog[i].attempt)
                  den == ClaimedDen(rLog[i].attempt)
              IN  /\ 2 * m * den - den <= 2 * num
                  /\ 2 * num < 2 * m * den + den
                  /\ m * rOptions.maxDelayMs.d <= rOptions.maxDelayMs.n
                  /\ (rOptions.initialDelayMs = Rat(1000, 1)
                        /\ rOptions.backoffMultiplier = Rat(2, 1)
                        /\ rOptions.maxDelayMs = Rat(3000, 1)) =>
                          m = CASE rLog[i].attempt = 1 -> 1000
                                [] rLog[i].attempt = 2 -> 2000
                                [] OTHER -> 3000
        /\ \A i, j \in RetryEvents("onRetry") :
              (i < j /\ rOptions.backoffMultiplier.n >= rOptions.backoffMultiplier.d) =>
                  rLog[i].delayMs <= rLog[j].delayMs

\* Three retries with 1000 / 2 / 3000 and no jitter: the third delay is
\* the cap.
C18_Witness ==
    /\ NoJitter
    /\ rOptions.initialDelayMs = Rat(1000, 1)
    /\ rOptions.backoffMultiplier = Rat(2, 1)
    /\ rOptions.maxDelayMs = Rat(3000, 1)
    /\ Sleeps = 3
    /\ \E i \in RetryEvents("onRetry") : rLog[i].attempt = 3 /\ rLog[i].delayMs = 3000

(***************************************************************************)
(* Properties of the timeout middleware (SpecTimeout).                     *)
(***************************************************************************)
\* The first of the timer and the settling of next() to happen.
TimerWon   == tLog # <<>> /\ tLog[1] = "timer"
HandlerWon == tLog # <<>> /\ tLog[1] \in {"resolved", "rejected"}

\* The text of the envelope a timeout is reported with.
TimeoutText ==
    IF tOptions.message = "custom"
    THEN "Error: Custom timeout: " \o tCtx \o " after " \o ToString(tOptions.ms) \o "ms"
    ELSE "Error: Handler '" \o tCtx \o "' timed out after "
            \o ToString(tOptions.ms) \o "ms"

\* C19: when next() resolves before the timer fires the caller receives
\* that result; when the timer fires first the caller receives, as a
\* resolved value, the timeout envelope with isError true, and whatever
\* next() settles with afterwards never reaches the caller.
C19_TimeoutOutcome ==
    /\ (HandlerWon /\ tLog[1] = "resolved") =>
          /\ tPromise.tag = "value"
          /\ tPromise = tNext.out
    /\ TimerWon =>
          /\ tPromise.tag = "value"
          /\ tPromise.v = Envelope(TimeoutText, "true")

\* The timer fired first and next() resolved afterwards.
C19_Witness ==
    /\ tLog = <<"timer", "resolved">>
    /\ tNext.out = Returns(JsString("slow"))
    /\ tPromise.v.isError = "true"

\* C20: in every interleaving of the timer, a resolution and a rejection
\* of next(), resolve or reject is called exactly once, by the first of
\* them; onTimeout is called at most once and only when the timer wins;
\* when next() settles first the timer is cleared and never fires, and a
\* rejection is passed on as a rejection with the same error.
C20_SettlesOnce ==
    /\ tSettles <= 1
    /\ tLog # <<>> => (tSettles = 1 /\ settled /\ tPromise # NoFlow)
    /\ tLog = <<>> => (tSettles = 0 /\ tPromise = NoFlow)
    /\ Len(tOnTimeout) <= 1
    /\ tOnTimeout # <<>> => (TimerWon /\ tOnTimeout[1] = <<tCtx, tOptions.ms>>)
    /\ HandlerWon =>
          /\ timer = "cleared"
          /\ Len(tLog) = 1
          /\ tPromise = tNext.out
          /\ tLog[1] = "rejected" => tPromise.tag = "throw"

\* The timer won, onTimeout was called, and next() rejected afterwards.
C20_Witness ==
    /\ tLog = <<"timer", "rejected">>
    /\ tSettles = 1
    /\ Len(tOnTimeout) = 1
    /\ tPromise.tag = "value"

(***************************************************************************)
(* Properties of the metrics middleware (SpecSamples, SpecMetrics).        *)
(***************************************************************************)
\* The metrics recorded for a key since the latest reset(), in order.
SamplesOf(key) ==
    SelectSeq(SubSeq(mOnMetric, mResetAt + 1, Len(mOnMetric)),
              LAMBDA m : getStoreKey(m.type, m.name) = key)

RECURSIVE SumOfDurations(_)
SumOfDurations(samples) ==
    IF samples = <<>> THEN 0
    ELSE Head(samples).durationMs + SumOfDurations(Tail(samples))

DurationsOf(samples) == {samples[i].durationMs : i \in 1..Len(samples)}

MinOf(set) == CHOOSE d \in set : \A other \in set : d <= other
MaxOf(set) == CHOOSE d \in set : \A other \in set : d >= other

\* callCount, minDurationMs and maxDurationMs of a key's aggregate are
\* those of the samples recorded for it.
CountMinMaxExact(key) ==
    LET agg == stores[key].aggregate
        samples == SamplesOf(key)
    IN  /\ agg.callCount = Len(samples)
        /\ agg.callCount >= 1
        /\ agg.minDurationMs = Integer(MinOf(DurationsOf(samples)))
        /\ agg.maxDurationMs = Integer(MaxOf(DurationsOf(samples)))

\* a - b for a >= b, and a <= b, for numbers of any size
RECURSIVE BigSubFrom(_, _, _, _)
BigSubFrom(a, b, i, borrow) ==
    IF i > Len(a)
    THEN <<>>
    ELSE LET d == a[i] - BigDigit(b, i) - borrow
         IN  <<d % Base>> \o BigSubFrom(a, b, i + 1, IF d < 0 THEN 1 ELSE 0)

BigSub(a, b) == BigTrim(BigSubFrom(a, b, 1, 0))

BigLeq(a, b) ==
    \/ Len(a) < Len(b)
    \/ /\ Len(a) = Len(b)
       /\ \A i \in 1..Len(a) :
             a[i] > b[i] => \E j \in (i + 1)..Len(a) : a[j] < b[j]

BigDistance(a, b) == IF BigLeq(a, b) THEN BigSub(b, a) ELSE BigSub(a, b)

\* |x * n - total| <= 4 * n * 2^(-53) * total, in exact arithmetic
WithinTolerance(x, n, total) ==
    LET product == BigMul(x.m, n)
        target  == BigShl(BigOfNat(total), 0 - x.e)
    IN  /\ x.e <= 0
        /\ BigLeq(BigShl(BigDistance(product, target), Precision),
                  BigMul(target, 4 * n))

\* C21 as stated: after N recorded calls of one (type, name) callCount is N,
\* avgDurationMs * N is exactly the sum of the durations, and minDurationMs
\* and maxDurationMs are their minimum and maximum.
C21_AverageTimesCountIsSum ==
    \A key \in DOMAIN stores :
        LET agg == stores[key].aggregate
        IN  /\ CountMinMaxExact(key)
            /\ FloatMul(agg.avgDurationMs, agg.callCount)
                 = FloatOfNat(SumOfDurations(SamplesOf(key)))

\* C21, amended: callCount, minDurationMs and maxDurationMs are exact, and
\* avgDurationMs is the running mean computed in floating point: times N
\* it equals the sum of the durations within a relative 4 * N * 2^(-53).
C21_AverageWithinTolerance ==
    \A key \in DOMAIN stores :
        LET agg == stores[key].aggregate
        IN  /\ CountMinMaxExact(key)
            /\ WithinTolerance(agg.avgDurationMs, agg.callCount,
                               SumOfDurations(SamplesOf(key)))

\* Seven samples of 2 and 5 ms whose mean, times seven, is not their sum.
C21_Witness ==
    \E key \in DOMAIN stores :
        LET agg == stores[key].aggregate
        IN  /\ agg.callCount = 7
            /\ DurationsOf(SamplesOf(key)) = {2, 5}
            /\ FloatMul(agg.avgDurationMs, 7) # FloatOfNat(SumOfDurations(SamplesOf(key)))

\* The calls whose next() settles in this step.
MetricsReturning == mPending \ mPending'

\* next() threw, or resolved with an object whose isError is truthy.
Failed(out) ==
    \/ out.tag = "throw"
    \/ out.tag = "value" /\ out.v.t \in {"envelope", "object"} /\ out.v.isError = "true"

\* C22: a pass through the middleware records exactly one sample, when
\* next() has settled; its success is false iff next() threw or resolved
\* with an object whose isError is truthy; and the middleware settles as
\* next() did, a thrown error being rethrown unchanged.
C22_OneSamplePerPass ==
    [][ /\ MetricsReturning = {} => mOnMetric' = mOnMetric
        /\ \A p \in MetricsReturning :
              /\ Len(mOnMetric') = Len(mOnMetric) + 1
              /\ SubSeq(mOnMetric', 1, Len(mOnMetric)) = mOnMetric
              /\ LET sample == mOnMetric'[Len(mOnMetric')]
                 IN  /\ sample.name = p.ctx.name
                     /\ sample.type = p.ctx.type
                     /\ sample.success = ~Failed(mLast'.next)
              /\ mLast'.id = p.id
              /\ mLast'.out = mLast'.next ]_vars

\* One call resolved with an error envelope and one threw: two samples,
\* neither a success, and the latest call rejected with what was thrown.
C22_Witness ==
    /\ Len(mOnMetric) = 2
    /\ ~mOnMetric[1].success /\ mOnMetric[1].error = <<"failed">>
    /\ ~mOnMetric[2].success /\ mOnMetric[2].error = <<"boom">>
    /\ mLast.out = Throws(JsError("boom"))

\* C23: the retained list of a key never holds more than maxPerHandler
\* samples, and is the latest min(callCount, maxPerHandler) samples
\* recorded for the key, in the order they were recorded.
C23_BoundedFifo ==
    \A key \in DOMAIN stores :
        LET samples  == SamplesOf(key)
            retained == stores[key].metrics
            count    == stores[key].aggregate.callCount
            kept     == IF count < mOptions.maxPerHandler
                        THEN count ELSE mOptions.maxPerHandler
        IN  /\ Len(retained) <= mOptions.maxPerHandler
            /\ count = Len(samples)
            /\ retained = SubSeq(samples, Len(samples) - kept + 1, Len(samples))

\* Three samples recorded for a key that retains two: the first was dropped.
C23_Witness ==
    \E key \in DOMAIN stores :
        /\ mOptions.maxPerHandler = 2
        /\ Len(SamplesOf(key)) = 3
        /\ stores[key].metrics = Tail(SamplesOf(key))
        /\ SamplesOf(key)[1] # SamplesOf(key)[2]

(***************************************************************************)
(* Properties of the auth middleware (SpecAuth).                           *)
(***************************************************************************)
Called(what) == \E i \in 1..Len(aLog) : aLog[i] = what

TimesCalled(what) == Cardinality({i \in 1..Len(aLog) : aLog[i] = what})

\* The dispatch carries no header map.
Stdio == aPc # "idle" /\ ~aCtx.headers.present

\* C24: a context without a header map, skipStdio being true: next() is
\* called, extractToken and validate are not, and ctx.auth stays unset.
\* skipStdio being false: extractToken is called, and then validate
\* unless there is no token, as for a context with headers.
C24_StdioBypass ==
    Stdio =>
      IF aOptions.skipStdio
      THEN /\ aLog = <<"next">>
           /\ aCtx.auth = JsUndefined
           /\ aPc = "done" => aOutcome \in AuthNextOutcomes
      ELSE /\ aLog[1] = "extractToken"
           /\ IF aOptions.extractToken = "constant"
              THEN /\ Len(aLog) >= 2 /\ aLog[2] = "validate"
                   /\ Called("next") => Called("set")
              ELSE /\ aLog = <<"extractToken">>
                   /\ aOutcome = Throws(JsError(missingTokenMessage(aOptions)))

\* skipStdio is true, there are no headers, and next() resolved.
C24_Witness ==
    /\ Stdio /\ aOptions.skipStdio /\ aOptions.extractToken = "constant"
    /\ aPc = "done"
    /\ aLog = <<"next">>
    /\ aOutcome = Returns(JsString("result"))

\* The bypass does not apply to the dispatch.
Gated == aPc # "idle" /\ ~(aOptions.skipStdio /\ ~aCtx.headers.present)

NonEmptyToken == aToken.t = "string" /\ aToken.s # ""

\* C25: when the bypass does not apply, validate is called only with a
\* non-empty token and next() only after validate resolved with auth data,
\* ctx.auth having been set to it once, before next(); otherwise the
\* middleware throws (the missing-token message without a token, the
\* invalid-token message when validate resolved with null), next() is not
\* called and ctx.auth stays unset.
C25_AuthGate ==
    Gated =>
      /\ Called("validate") => NonEmptyToken
      /\ Called("next") =>
            /\ aLog = <<"extractToken", "validate", "set", "next">>
            /\ NonEmptyToken
            /\ aCtx.auth \in {r.v : r \in {o \in ValidateOutcomes : o.tag = "value"}}
            /\ aCtx.auth # JsNull
      /\ TimesCalled("set") <= 1
      /\ ~Called("next") =>
            /\ aCtx.auth = JsUndefined
            /\ ~Called("set")
            /\ aPc \in {"validating", "done"}
            /\ aPc = "done" =>
                 /\ aOutcome.tag = "throw"
                 /\ ~NonEmptyToken =>
                       /\ aLog = <<"extractToken">>
                       /\ aOutcome = Throws(JsError(missingTokenMessage(aOptions)))
                 /\ NonEmptyToken =>
                       /\ aLog = <<"extractToken", "validate">>
                       /\ aOutcome \in
                            {Throws(JsError(invalidTokenMessage(aOptions)))}
                              \cup {o \in ValidateOutcomes : o.tag = "throw"}

\* A token from the authorization header was validated, ctx.auth was set
\* and next() resolved.
C25_Witness ==
    /\ Gated /\ aCtx.headers.present
    /\ aToken = JsString("my-token")
    /\ aLog = <<"extractToken", "validate", "set", "next">>
    /\ aCtx.auth = JsObject("{\"userId\":\"123\"}")
    /\ aOutcome = Returns(JsString("result"))

(***************************************************************************)
(* Properties of resource templates (SpecTemplate).                        *)
(***************************************************************************)
\* Every way a URI, from j on, is the template, from i on, with each
\* placeholder {p} replaced by a non-empty segment without "/": the
\* segments, in order.
RECURSIVE Instances(_, _, _, _)
Instances(template, i, uri, j) ==
    IF i > Len(template)
    THEN IF j > Len(uri) THEN {<<>>} ELSE {}
    ELSE LET k == ClosingBrace(template, i + 1)
         IN  IF template[i] = "{" /\ k > i + 1
             THEN UNION { { <<SubSeq(uri, j, e)>> \o rest :
                              rest \in Instances(template, k + 1, uri, e + 1) } :
                          e \in {e \in j..Len(uri) : \A l \in j..e : uri[l] # "/"} }
             ELSE IF j <= Len(uri) /\ uri[j] = template[i]
             THEN Instances(template, i + 1, uri, j + 1)
             ELSE {}

DistinctNames(names) ==
    \A i, j \in 1..Len(names) : names[i] = names[j] => i = j

\* The template the latest read was of, as the server holds it.
ReadOf == uTemplate[uRead.template]

\* C26: a URI matches a template of distinct parameter names iff it is the
\* template with each placeholder replaced by one non-empty segment without
\* "/", and then the params map the i-th parameter name to the i-th segment.
C26_TemplateMatching ==
    uRead.read /\ DistinctNames(ReadOf.paramNames) =>
      LET instances == Instances(ReadOf.uriTemplate, 1, uRead.uri, 1)
          names     == ReadOf.paramNames
      IN  /\ uRead.matched <=> instances # {}
          /\ uRead.matched =>
                \E segments \in instances :
                    \A i \in 1..Len(names) : uRead.params[names[i]] = Join(segments[i])

\* C27: a template that holds the same parameter name twice is neither
\* taken by resourceTemplate() nor given a read callback by setupServer.
C27_DuplicateParameterRejected ==
    /\ \A i \in DOMAIN resourceTemplates :
          DistinctNames(extractTemplateParams(resourceTemplates[i].uriTemplate))
    /\ \A i \in DOMAIN uTemplate : DistinctNames(uTemplate[i].paramNames)

(***************************************************************************)
(* Properties of the tool callback's result normalisation (SpecChain).     *)
(***************************************************************************)
\* The chain of a tool call resolved and the callback has its answer.
ToolChainResolved ==
    /\ pc = "done"
    /\ call.kind = "tool"
    /\ flow.tag = "value"

\* C28: a chain result that is an envelope already is returned unchanged;
\* any other is returned as an envelope of one text item, holding a string
\* as it is and any other value as its JSON text; what is returned is left
\* unchanged by a second normalisation.
C28_NormalizationIdempotent ==
    ToolChainResolved =>
        /\ outcome.settle = "resolved"
        /\ outcome.value.t = "envelope"
        /\ flow.v.t = "envelope" => outcome.value = flow.v
        /\ flow.v.t = "string" =>
              outcome.value = [t |-> "envelope", s |-> flow.v.s,
                               isError |-> "absent", text |-> "string"]
        /\ flow.v.t \notin {"envelope", "string"} =>
              /\ outcome.value.isError = "absent"
              /\ outcome.value.text = JsonStringify(flow.v).t
              /\ outcome.value.s = JsonStringify(flow.v).s
        /\ NormalizeToolResult(outcome.value) = outcome.value

C28_Witness ==
    /\ ToolChainResolved
    /\ flow.v = JsObject("{\"n\":1}")
    /\ outcome.value = Envelope("{\n  \"n\": 1\n}", "absent")

(***************************************************************************)
(* Properties of the limiter's counter, under retry (SpecRetried).         *)
(***************************************************************************)
\* The step is a call of the limiter; the call, made with key k, is
\* admitted.
LimiterCalled == rlCalls' = rlCalls + 1

Admitted(k) == LimiterCalled /\ rlLast'.key = k /\ rlLast'.allowed

\* The bucket a step finds under k: the one in the Map, or the one a call
\* with key k puts in its place when there is none or its window is over.
BucketFound(k) ==
    IF /\ LimiterCalled
       /\ rlLast'.key = k
       /\ (k \notin DOMAIN buckets \/ now >= buckets[k].resetTime)
    THEN [count |-> 0, resetTime |-> now + rlOptions.windowMs]
    ELSE IF k \in DOMAIN buckets THEN buckets[k] ELSE NoBucket

\* The step begins an attempt of the retry loop: next() is called.
AttemptBegins ==
    /\ Len(rLog') = Len(rLog) + 1
    /\ rLog'[Len(rLog')].ev = "next"

\* The step is next() of the retry loop settling.
AttemptSettles == rPc = "awaiting" /\ rPc' # "awaiting"

\* The count of a bucket is one more after a step that admits a call with
\* its key, and the same after any other step, the bucket being the one
\* the step finds; an admitted call has invoked next() with the count
\* incremented; the settling of next(), thrown errors included, leaves the
\* buckets alone; every attempt of a retry before the limiter is a call of
\* the limiter; 0 <= count <= maxRequests.
CounterFrame ==
    /\ \A k \in DOMAIN buckets' :
          /\ buckets'[k].resetTime = BucketFound(k).resetTime
          /\ buckets'[k].count =
                BucketFound(k).count + (IF Admitted(k) THEN 1 ELSE 0)
          /\ 0 <= buckets'[k].count
          /\ buckets'[k].count <= rlOptions.maxRequests
    /\ LimiterCalled =>
          /\ rlLast'.key \in DOMAIN buckets'
          /\ rlNext' = rlNext + (IF rlLast'.allowed THEN 1 ELSE 0)
    /\ AttemptBegins => LimiterCalled /\ rlLast'.ctx = RetriedContext
    /\ AttemptSettles => buckets' = buckets /\ rlNext' = rlNext

\* A denied call leaves the Map of buckets as it was.
DeniedLeavesBuckets ==
    (LimiterCalled /\ ~rlLast'.allowed) => buckets' = buckets

\* C29 (as claimed): the count of a bucket changes exactly on admission,
\* by one and before next() is invoked, and never goes down; a denied call
\* leaves count and resetTime unchanged; a throwing handler and every
\* attempt of a retry before the limiter consume a slot; 0 <= count <=
\* maxRequests for every bucket.
C29_CountChangesOnAdmission ==
    [][CounterFrame /\ DeniedLeavesBuckets]_vars

\* C29 (amended): the same, a denied call leaving count and resetTime
\* unchanged when maxRequests >= 1; with maxRequests = 0 a denied call that
\* finds no bucket, or one whose window is over, stores the bucket
\* {count: 0, resetTime: now + windowMs}.
C29_CountChangesWithinWindow ==
    [][ /\ CounterFrame
        /\ rlOptions.maxRequests >= 1 => DeniedLeavesBuckets
        /\ (LimiterCalled /\ ~rlLast'.allowed) =>
              buckets'[rlLast'.key] = BucketFound(rlLast'.key) ]_vars

\* The second attempt, after a handler that threw, took the second slot of
\* the window.
C29_Witness ==
    /\ rPc = "awaiting"
    /\ rAttempt = 2
    /\ rLastError = JsError("fail")
    /\ rlCalls = 2
    /\ rlLast.allowed
    /\ rlLast.prev.count = 1
    /\ buckets[rlLast.key].count = 2

(***************************************************************************)
(* Properties of dispatches in flight together (SpecRace).                 *)
(***************************************************************************)
\* The dispatches that reached next() with key k in the window ending at r.
ReachedNext(k, r) ==
    { i \in DOMAIN rlDispatches :
        /\ rlDispatches[i].pc \in {"handler", "settled"}
        /\ rlDispatches[i].key = k
        /\ rlDispatches[i].window = r }

InFlight == { i \in DOMAIN rlDispatches : rlDispatches[i].pc \in {"upstream", "handler"} }

\* C30: of the dispatches that share a key, however they interleave, at
\* most maxRequests reach next() within one window.
C30_AtMostMaxRequestsReachNext ==
    \A i \in DOMAIN rlDispatches :
        rlDispatches[i].pc \in {"handler", "settled"} =>
            Cardinality(ReachedNext(rlDispatches[i].key, rlDispatches[i].window))
                <= rlOptions.maxRequests

\* Three dispatches in flight at once: the one begun last entered the
\* limiter first, and the one begun first is denied while the two others
\* are in their handlers.
C30_Witness ==
    /\ rlOptions.maxRequests = 2
    /\ Len(rlDispatches) = 3
    /\ rlDispatches[1].pc = "denied"
    /\ rlDispatches[2].pc = "handler"
    /\ rlDispatches[3].pc = "handler"
    /\ rlDispatches[1].key = rlDispatches[2].key
    /\ rlDispatches[1].key = rlDispatches[3].key
    /\ rlDispatches[2].window = rlDispatches[3].window
    /\ rlDispatches[1].window = rlDispatches[3].window

(***************************************************************************)
(* The limiter and its cleanup interval (SpecRate).                        *)
(***************************************************************************)
\* The bucket of key k had the interval never run: rlWindow is written by
\* the calls alone.
UnsweptBucket(k) ==
    IF k \in DOMAIN rlWindow
    THEN [count |-> rlWindow[k].admitted, resetTime |-> rlWindow[k].resetTime]
    ELSE NoBucket

\* What a call with ctx, made now, is answered had the interval never run.
UnsweptAnswer(ctx) ==
    LET prev   == UnsweptBucket(BucketKey(rlOptions, ctx))
        bucket == IF prev = NoBucket \/ now >= prev.resetTime
                  THEN [count |-> 0, resetTime |-> now + rlOptions.windowMs]
                  ELSE prev
        denied == bucket.count >= rlOptions.maxRequests
    IN  [allowed |-> ~denied,
         retryAfterMs |-> IF denied THEN bucket.resetTime - now ELSE 0]

\* C31: whatever the cleanup interval has removed, a call made now gets
\* the decision and the retryAfterMs it would get had the interval never
\* run; a bucket missing from the Map is one whose window is over.
C31_SweepIrrelevant ==
    /\ \A k \in DOMAIN rlWindow :
          IF k \in DOMAIN buckets
          THEN buckets[k] = UnsweptBucket(k)
          ELSE now >= rlWindow[k].resetTime
    /\ \A ctx \in Contexts :
          LET r == RateLimitCall(rlOptions, ctx, now)
          IN  /\ r.allowed = UnsweptAnswer(ctx).allowed
              /\ r.retryAfterMs = UnsweptAnswer(ctx).retryAfterMs

\* The one key had an exhausted bucket, the interval removed it, and the
\* call made after that was admitted into a new window.
C31_Witness ==
    /\ rlOptions.keys = "global"
    /\ rlOptions.maxRequests = 1
    /\ rlCalls = 3
    /\ rlNext = 2
    /\ rlLast.prev = NoBucket
    /\ rlLast.allowed
    /\ rlLast.at = rlWindow["global"].resetTime - rlOptions.windowMs

(***************************************************************************)
(* Capacity and bookkeeping of the cache (SpecCache).                      *)
(***************************************************************************)
\* C32: with maxEntries >= 1 the store never holds more than maxEntries
\* entries, whatever strings the key generator returns.
C32_CapacityBound ==
    cOptions.maxEntries >= 1 => Cardinality(DOMAIN store) <= cOptions.maxEntries

\* C39: the access order holds no key twice, and holds exactly the keys of
\* the store.
C39_OrderMatchesStore ==
    /\ \A i, j \in 1..Len(accessOrder) : accessOrder[i] = accessOrder[j] => i = j
    /\ {accessOrder[i] : i \in 1..Len(accessOrder)} = DOMAIN store

(***************************************************************************)
(* Concurrent misses of one key (SpecCache).                               *)
(***************************************************************************)
\* The step begins a call with the key of a miss that waits for next(),
\* the store holding no unexpired entry of that key.
BeginsBesideMiss ==
    /\ cCalls' = cCalls + 1
    /\ cLast'.key # <<>>
    /\ \E q \in pending : q.mode = "miss" /\ q.key = cLast'.key
    /\ \/ cLast'.key[1] \notin DOMAIN store
       \/ now >= store[cLast'.key[1]].expiresAt

\* The call p, now returning, began before the latest call, which had the
\* same key, missed as well and has returned already.
FinishesLast(p) ==
    /\ p.mode = "miss"
    /\ cLast.mode = "miss"
    /\ cLast.key = p.key
    /\ cLast.id > p.id
    /\ \A q \in pending : q.id # cLast.id

\* C33 (as claimed): a call with the key of a waiting miss misses too and
\* invokes next(); after both have completed the store holds the result of
\* the one that finished last.
C33_LastFinisherStored ==
    [][ /\ BeginsBesideMiss =>
              /\ cLast'.mode = "miss"
              /\ cNext' = cNext + 1
        /\ \A p \in Returning, out \in NextOutcomes :
              (FinishesLast(p) /\ CacheStores(p, out)) =>
                  /\ p.key[1] \in DOMAIN store'
                  /\ store'[p.key[1]].value = out.v ]_vars

\* C33 (amended): a call with the key of a waiting miss misses too and
\* invokes next(); the one whose next() resolves last leaves its result in
\* the store, expiring at (time of its own lookup) + ttlMs; one whose
\* next() rejects stores nothing, so the store keeps what it held.
C33_LastResolvedStored ==
    [][ /\ BeginsBesideMiss =>
              /\ cLast'.mode = "miss"
              /\ cNext' = cNext + 1
              /\ \E q \in pending' \ pending : q.id = cLast'.id
        /\ \A p \in Returning, out \in NextOutcomes :
              (FinishesLast(p) /\ out.tag = "value" /\ CacheStores(p, out)) =>
                  /\ p.key[1] \in DOMAIN store'
                  /\ store'[p.key[1]] =
                        [value |-> out.v, expiresAt |-> p.at + cOptions.ttlMs]
        /\ \A p \in Returning, out \in NextOutcomes :
              (FinishesLast(p) /\ out.tag = "throw" /\ CacheStores(p, out)) =>
                  store' = store ]_vars

\* Two calls of one key missed, at 0 and at 1, both were waiting, and the
\* entry in the store is the one of the call made at 0, written after the
\* lookup of the call made at 1.
C33_Witness ==
    /\ cOptions.ttlMs = 2
    /\ cCalls = 2
    /\ cNext = 2
    /\ pending = {}
    /\ cLast.mode = "miss"
    /\ cLast.at = 1
    /\ cLast.entry = NoEntry
    /\ cLast.key[1] \in DOMAIN store
    /\ store[cLast.key[1]].expiresAt = 2

(***************************************************************************)
(* The lifetime of an entry (SpecSlow).                                    *)
(***************************************************************************)
\* C38: the entry a call writes expires ttlMs after the time the call read
\* before its lookup, whenever it is written; written ttlMs or more after
\* that time it is expired already, and the next call of the key, made at
\* the time of the write or later, is a miss and invokes next().
C38_LifetimeFromLookup ==
    [][ /\ \A p \in Returning, out \in NextOutcomes :
              (p.mode = "miss" /\ out.tag = "value" /\ SlowFinish(p, out)) =>
                  /\ store'[p.key[1]].expiresAt = p.at + cOptions.ttlMs
                  /\ cWrittenAt'[p.key[1]] = now
                  /\ now - p.at >= cOptions.ttlMs <=>
                        now >= store'[p.key[1]].expiresAt
        /\ ( /\ cCalls' = cCalls + 1
             /\ cLast'.key # <<>>
             /\ cLast'.key[1] \in DOMAIN store
             /\ cWrittenAt[cLast'.key[1]] >= store[cLast'.key[1]].expiresAt ) =>
                  /\ cLast'.mode = "miss"
                  /\ cNext' = cNext + 1 ]_vars

\* A call made at 0 wrote its entry at 1, ttlMs being 1, and the call made
\* at 1 after that missed.
C38_Witness ==
    /\ cOptions.ttlMs = 1
    /\ cCalls = 2
    /\ cNext = 2
    /\ cLast.mode = "miss"
    /\ cLast.at = 1
    /\ cLast.entry.expiresAt = 1
    /\ cWrittenAt[cLast.key[1]] = 1
    /\ cLast.key[1] \in DOMAIN store
    /\ store[cLast.key[1]] = cLast.entry

(***************************************************************************)
(* The cache before the timeout (SpecGuarded).                             *)
(***************************************************************************)
\* The cache gets the answer of the call that waits.
GuardedReturns(p) == p \in Returning /\ p.mode = "miss"

\* The step begins a call whose key was last written with the envelope of
\* a timeout, which has not expired.
BeginsOnTimeoutEntry ==
    /\ cCalls' = cCalls + 1
    /\ cLast'.key # <<>>
    /\ cLast'.stored # NoEntry
    /\ cLast'.stored.value.t = "envelope"
    /\ cLast'.stored.value.isError = "true"
    /\ cLast'.at < cLast'.stored.expiresAt

\* What is stored when the cache gets its answer: the envelope of a call
\* that timed out, any other resolved result, and nothing on a rejection.
StoresWhatResolves ==
    \A p \in Returning :
        GuardedReturns(p) =>
            /\ TimedOut =>
                  /\ tPromise.tag = "value"
                  /\ tPromise.v.t = "envelope"
                  /\ tPromise.v.isError = "true"
            /\ tPromise.tag = "value" =>
                  /\ p.key[1] \in DOMAIN store'
                  /\ store'[p.key[1]] =
                        [value |-> tPromise.v, expiresAt |-> p.at + cOptions.ttlMs]
            /\ tPromise.tag = "throw" => store' = store /\ accessOrder' = accessOrder

\* The call is answered from the store: the handler is not invoked.
AnsweredFromStore ==
    /\ cLast'.mode = "hit"
    /\ cLast'.result = cLast'.stored.value
    /\ cNext' = cNext
    /\ UNCHANGED timeoutVars

\* C36 (as claimed): a call that times out leaves the envelope of the
\* timeout in the cache, every call with its key before expiresAt returns
\* that envelope without invoking the handler, and only a rejection leaves
\* the store and the access order unchanged.
C36_TimeoutEnvelopeCached ==
    [][ /\ StoresWhatResolves
        /\ BeginsOnTimeoutEntry => AnsweredFromStore ]_vars

\* C36 (amended): the same, the later calls returning the envelope while
\* the store still holds the entry.
C36_TimeoutEnvelopeHeld ==
    [][ /\ StoresWhatResolves
        /\ ( /\ BeginsOnTimeoutEntry
             /\ cLast'.key[1] \in DOMAIN store
             /\ store[cLast'.key[1]] = cLast'.stored ) => AnsweredFromStore ]_vars

\* The call made at 0 timed out at 1; the call of the same key made after
\* that got the envelope from the store, with no handler invoked for it.
C36_Witness ==
    /\ cCalls = 2
    /\ cNext = 1
    /\ cLast.mode = "hit"
    /\ cLast.result = TimeoutResult(tOptions, "a").v
    /\ cLast.entry.expiresAt = 2
    /\ timer = "none"
    /\ pending = {}

\* Attempt 1 opens the log; every later attempt k + 1 comes right after
\* attempt k, its rejection, onRetry(error, k, delay) and the sleep of
\* that delay.
AttemptsInSequence ==
    \A i \in RetryEvents("next") :
        IF rLog[i].attempt = 1
        THEN i = 1
        ELSE /\ i > 4
             /\ rLog[i - 4] = RetryEvent("next", rLog[i].attempt - 1, 0, None)
             /\ rLog[i - 3].ev = "rejected"
             /\ rLog[i - 3].attempt = rLog[i].attempt - 1
             /\ rLog[i - 2] = RetryEvent("onRetry", rLog[i].attempt - 1,
                                         rLog[i - 2].delayMs, rLog[i - 3].error)
             /\ rLog[i - 1] = RetryEvent("sleep", rLog[i].attempt - 1,
                                         rLog[i - 2].delayMs, None)

\* The attempts that were begun and have not settled.
AttemptsInFlight ==
    NextCalls - Cardinality(RetryEvents("rejected"))
              - (IF rPc = "done" /\ rOutcome.tag = "value" THEN 1 ELSE 0)

\* onRetry follows each rejection that is retried, once, and the calls
\* are numbered 1, 2, ... in order.
OnRetryOncePerRetry ==
    /\ \A i \in RetryEvents("onRetry") :
          /\ rLog[i].attempt = Cardinality({j \in RetryEvents("onRetry") : j <= i})
          /\ i > 1 /\ rLog[i - 1].ev = "rejected"
    /\ \A i \in RetryEvents("rejected") :
          i < Len(rLog) => rLog[i + 1].ev = "onRetry"
    /\ Cardinality(RetryEvents("onRetry")) =
          IF rPc = "awaiting" \/ (rPc = "done" /\ rOutcome.tag = "value")
          THEN Cardinality(RetryEvents("rejected"))
          ELSE IF rPc = "sleeping" THEN NextCalls
          ELSE IF NextCalls = 0 THEN 0 ELSE NextCalls - 1

\* The step calls next().
CallsNext == Len(rLog') = Len(rLog) + 1 /\ rLog'[Len(rLog')].ev = "next"

\* C34: the attempts of one dispatch are strictly sequential: attempt
\* k + 1 calls next() only after attempt k has rejected, onRetry(error, k,
\* delay, ctx) has been called and the sleep of attempt k is over, so at
\* most one attempt is in flight; a successful attempt ends the loop; and
\* onRetry is called once per retried failure, numbered 1, 2, ... in order.
C34_AttemptsSequential ==
    [][ /\ AttemptsInSequence'
        /\ AttemptsInFlight' = (IF rPc' = "awaiting" THEN 1 ELSE 0)
        /\ OnRetryOncePerRetry'
        /\ CallsNext => rPc \in {"idle", "sleeping"} /\ AttemptsInFlight = 0
        /\ (rPc = "done" /\ rOutcome.tag = "value") => UNCHANGED retryVars
        /\ (rPc' = "done" /\ rOutcome'.tag = "value") => rLog'[Len(rLog')].ev = "next" ]_vars

\* Two attempts failed with unlike errors and were retried, the third is
\* in flight.
C34_Witness ==
    /\ rPc = "awaiting"
    /\ rAttempt = 3
    /\ Len(rLog) = 9
    /\ rLog[3].error # rLog[7].error
    /\ rLog[3].attempt = 1 /\ rLog[7].attempt = 2

(***************************************************************************)
(* Retry before the limiter or the timeout (SpecShielded).                 *)
(***************************************************************************)
\* The attempt that is awaited was denied by the limiter, or its timer ran
\* before the handler settled.
DeniedOrTimedOut ==
    IF tOptions = NoTimeoutOptions THEN ~rlAttempt.allowed ELSE TimedOut

\* The error envelope the limiter or the timeout answered with.
ShieldEnvelope ==
    IF tOptions = NoTimeoutOptions
    THEN Returns(rlAttempt.result)
    ELSE TimeoutResult(tOptions, tCtx)

\* C35: a denial of the limiter and a timeout are resolved results for a
\* retry middleware registered before them: the attempt is not retried (a
\* first attempt leaves next() invoked once), retry returns the error
\* envelope, and no rejection is observed.
C35_DenialsAndTimeoutsResolve ==
    [][ (rPc = "awaiting" /\ rPc' # "awaiting" /\ DeniedOrTimedOut) =>
            /\ rPc' = "done"
            /\ rOutcome' = ShieldEnvelope
            /\ rOutcome'.tag = "value"
            /\ rOutcome'.v.t = "envelope"
            /\ rOutcome'.v.isError = "true"
            /\ rLog' = rLog
            /\ rLastError' = rLastError
            /\ rAttempt = 1 => NextCalls' = 1 ]_vars

\* A first attempt was rejected by the handler and retried; the second
\* was denied or timed out, and retry returned the envelope.
C35_Witness ==
    /\ rPc = "done"
    /\ NextCalls = 2
    /\ Cardinality(RetryEvents("rejected")) = 1
    /\ rOutcome.tag = "value"
    /\ rOutcome.v.t = "envelope"
    /\ rOutcome.v.isError = "true"

(***************************************************************************)
(* The timeout before retry (SpecOutlived).                                *)
(***************************************************************************)
\* The positions of tLog that hold ev.
TimeoutEvents(ev) == {i \in 1..Len(tLog) : tLog[i] = ev}

\* The timer callback ran while retry had not settled.
TimerRanFirst ==
    /\ TimeoutEvents("timer") # {}
    /\ \A i \in TimeoutEvents("resolved") \cup TimeoutEvents("rejected") :
          \A j \in TimeoutEvents("timer") : j < i

\* C37: a timeout does not stop the work downstream of it.  With timeout
\* before retry, the timer callback leaves the retry loop as it is; the
\* caller has the envelope of the timeout from then on, whatever the loop
\* does and settles with later; and the handler is invoked at most
\* maxRetries + 1 times in all.
C37_TimeoutLeavesRetryRunning ==
    [][ /\ (timer = "armed" /\ timer' = "fired") =>
              /\ UNCHANGED retryVars
              /\ rPc = "awaiting" => tPromise' = TimeoutResult(tOptions, tCtx)
        /\ TimerRanFirst => /\ tPromise = TimeoutResult(tOptions, tCtx)
                       /\ tPromise' = tPromise
        /\ NextCalls' <= rOptions.maxRetries + 1 ]_vars

\* The timer ran during the first attempt; the handler was then invoked
\* twice more and the loop resolved, while the caller holds the envelope.
C37_Witness ==
    /\ tLog = <<"timer", "next", "next", "resolved">>
    /\ NextCalls = 3
    /\ rOutcome = Returns(JsString("success"))
    /\ tPromise = TimeoutResult(tOptions, "a")
    /\ tSettles = 1

(***************************************************************************)
(* The counters of the metrics store (SpecMetrics).                        *)
(***************************************************************************)
\* The metrics recorded for the key since the last reset, those dropped
\* from the list since included.
RecordedSinceReset(key) ==
    Cardinality({i \in (mResetAt + 1)..Len(mOnMetric) :
                    getStoreKey(mOnMetric[i].type, mOnMetric[i].name) = key})

\* C40: for every aggregate, callCount = successCount + errorCount,
\* callCount is the number of samples recorded since the last reset, and
\* the samples retained number min(callCount, maxPerHandler).
C40_CountersConsistent ==
    \A key \in DOMAIN stores :
        LET agg == stores[key].aggregate
        IN  /\ agg.callCount = agg.successCount + agg.errorCount
            /\ agg.callCount = RecordedSinceReset(key)
            /\ Len(stores[key].metrics) =
                  IF agg.callCount < mOptions.maxPerHandler
                  THEN agg.callCount
                  ELSE mOptions.maxPerHandler

\* After a reset a handler was recorded twice, once failing, with room
\* for one sample, while three metrics were recorded in all.
C40_Witness ==
    /\ mResetAt = 1
    /\ Len(mOnMetric) = 3
    /\ mOptions.maxPerHandler = 1
    /\ \E key \in DOMAIN stores :
          /\ stores[key].aggregate.callCount = 2
          /\ stores[key].aggregate.successCount = 1
          /\ stores[key].aggregate.errorCount = 1
          /\ Len(stores[key].metrics) = 1

====
